---- MODULE Spec2Model ----
(***************************************************************************)
(* Verification model of the SpoofCoin mining code:                        *)
(*   - the standalone genesis miner   (src/genesis_miner.cpp)              *)
(*   - the multi-threaded miner       (src/src/spoofcoin/miner.cpp)        *)
(* 32-bit words are kept as two 16-bit halves, so that every uint32_t      *)
(* keeps its full width and wraps at 2^32.                                 *)
(***************************************************************************)
EXTENDS Integers, Sequences, FiniteSets, TLC

\* ------------------------------------------------------------ uint32_t

U32(h, l) == [hi |-> h, lo |-> l]
U32FromNat(n) == [hi |-> n \div 65536, lo |-> n % 65536]
U32Zero == U32(0, 0)
U32Max == U32(65535, 65535)

\* x + 1 on a uint32_t: wraps from 0xFFFFFFFF to 0
U32Inc(x) ==
    IF x.lo < 65535 THEN [x EXCEPT !.lo = @ + 1]
    ELSE [hi |-> (x.hi + 1) % 65536, lo |-> 0]

\* x + k on a uint32_t, for 0 <= k < 2^16
U32Add(x, k) ==
    LET s == x.lo + k
    IN  [hi |-> (x.hi + (s \div 65536)) % 65536, lo |-> s % 65536]

\* a < b on uint32_t
U32Less(a, b) == a.hi < b.hi \/ (a.hi = b.hi /\ a.lo < b.lo)

\* (x >> (i * 8)) & 0xFF
U32Byte(x, i) ==
    CASE i = 0 -> x.lo % 256
      [] i = 1 -> x.lo \div 256
      [] i = 2 -> x.hi % 256
      [] i = 3 -> x.hi \div 256

RECURSIVE BitOr(_, _)
BitOr(a, b) ==
    IF a = 0 THEN b
    ELSE IF b = 0 THEN a
    ELSE (IF a % 2 = 1 \/ b % 2 = 1 THEN 1 ELSE 0) + 2 * BitOr(a \div 2, b \div 2)

\* word |= (byte_val << (byte_in_word * 8))
U32OrByte(word, byte_val, byte_in_word) ==
    CASE byte_in_word = 0 -> [word EXCEPT !.lo = BitOr(@, byte_val)]
      [] byte_in_word = 1 -> [word EXCEPT !.lo = BitOr(@, byte_val * 256)]
      [] byte_in_word = 2 -> [word EXCEPT !.hi = BitOr(@, byte_val)]
      [] byte_in_word = 3 -> [word EXCEPT !.hi = BitOr(@, byte_val * 256)]

\* uint64_t as two uint32_t words
U64(h, l) == [hi |-> h, lo |-> l]
U64FromU32(x) == U64(U32Zero, x)
U64Inc(x) ==
    IF x.lo # U32Max THEN [x EXCEPT !.lo = U32Inc(@)]
    ELSE [hi |-> U32Inc(x.hi), lo |-> U32Zero]

\* x % m on a uint64_t, for 0 < m < 2^23 (Horner over the eight bytes)
U64Mod(x, m) ==
    LET bytes == << U32Byte(x.hi, 3), U32Byte(x.hi, 2), U32Byte(x.hi, 1), U32Byte(x.hi, 0),
                    U32Byte(x.lo, 3), U32Byte(x.lo, 2), U32Byte(x.lo, 1), U32Byte(x.lo, 0) >>
        RECURSIVE Horner(_, _)
        Horner(k, r) == IF k > 8 THEN r ELSE Horner(k + 1, (r * 256 + bytes[k]) % m)
    IN  Horner(1, 0)

\* ------------------------------------------------------- hex strings

HexDigits == << "0", "1", "2", "3", "4", "5", "6", "7",
                "8", "9", "a", "b", "c", "d", "e", "f" >>

\* one digit as std::hex prints it
HexChar(v) == HexDigits[v + 1]

\* the value strtol(.., 16) gives one digit
HexVal(c) == CHOOSE v \in 0..15 : HexDigits[v + 1] = c

\* strtol(byte_str.c_str(), nullptr, 16) on a two-character string
strtol16(byte_str) == 16 * HexVal(byte_str[1]) + HexVal(byte_str[2])

Rep(c, n) == [k \in 1..n |-> c]

\* ------------------------------------------------------------ uint256

\* uint256(): data[0..7] zeroed (data[k] is kept at index k + 1)
uint256_Zero == [k \in 1..8 |-> U32Zero]

\* a faulty SetHex: the first byte pair always goes to the most significant byte
SetHexLoop_LeftAligned(hex) ==
    LET n == Len(hex)
        RECURSIVE Loop(_, _)
        Loop(i, data) ==
            IF i >= n THEN data
            ELSE LET byte_pos == 31 - i \div 2
                     word_pos == byte_pos \div 4
                     byte_in_word == byte_pos % 4
                     byte_val == strtol16(SubSeq(hex, i + 1, i + 2))
                 IN  Loop(i + 2, [data EXCEPT ![word_pos + 1] =
                                     U32OrByte(@, byte_val, byte_in_word)])
    IN  IF n > 64 THEN uint256_Zero ELSE Loop(0, uint256_Zero)

\* SetHex (lines 24-38): the loop over the byte pairs of hex
SetHexLoop(hex) ==
    LET n == Len(hex)
        RECURSIVE Loop(_, _)
        Loop(i, data) ==
            IF i >= n THEN data
            ELSE LET byte_pos == (n - i - 2) \div 2
                     word_pos == byte_pos \div 4
                     byte_in_word == byte_pos % 4
                     byte_val == strtol16(SubSeq(hex, i + 1, i + 2))
                 IN  Loop(i + 2, [data EXCEPT ![word_pos + 1] =
                                     U32OrByte(@, byte_val, byte_in_word)])
    IN  IF n > 64 THEN uint256_Zero ELSE Loop(0, uint256_Zero)

\* setw(8) << std::hex of one word
Hex8(w) ==
    << HexChar(w.hi \div 4096), HexChar((w.hi \div 256) % 16),
       HexChar((w.hi \div 16) % 16), HexChar(w.hi % 16),
       HexChar(w.lo \div 4096), HexChar((w.lo \div 256) % 16),
       HexChar((w.lo \div 16) % 16), HexChar(w.lo % 16) >>

\* SetHex, its argument evaluated once
SetHex(hex) == CHOOSE r \in {SetHexLoop(x) : x \in {hex}} : TRUE

GetHex(u) ==
    Hex8(u[8]) \o Hex8(u[7]) \o Hex8(u[6]) \o Hex8(u[5]) \o
    Hex8(u[4]) \o Hex8(u[3]) \o Hex8(u[2]) \o Hex8(u[1])

\* a faulty operator<: the comparison loop runs over the words 0 .. 7
RECURSIVE uint256_LessUp(_, _, _)
uint256_LessUp(a, b, i) ==
    IF i > 7 THEN FALSE
    ELSE IF U32Less(a[i + 1], b[i + 1]) THEN TRUE
    ELSE IF U32Less(b[i + 1], a[i + 1]) THEN FALSE
    ELSE uint256_LessUp(a, b, i + 1)

uint256_Less_LowWordFirst(a, b) == uint256_LessUp(a, b, 0)

\* a faulty operator<: the words compared as signed 32-bit integers
RECURSIVE uint256_LessSigned(_, _, _)
uint256_LessSigned(a, b, i) ==
    LET neg(w) == w.hi >= 32768
        less(x, y) == IF neg(x) # neg(y) THEN neg(x) ELSE U32Less(x, y)
    IN  IF i < 0 THEN FALSE
        ELSE IF less(a[i + 1], b[i + 1]) THEN TRUE
        ELSE IF less(b[i + 1], a[i + 1]) THEN FALSE
        ELSE uint256_LessSigned(a, b, i - 1)

uint256_Less_SignedWords(a, b) == uint256_LessSigned(a, b, 7)

\* operator<, with the word index of the comparison loop running 7 .. 0
RECURSIVE uint256_LessFrom(_, _, _)
uint256_LessFrom(a, b, i) ==
    IF i < 0 THEN FALSE
    ELSE IF U32Less(a[i + 1], b[i + 1]) THEN TRUE
    ELSE IF U32Less(b[i + 1], a[i + 1]) THEN FALSE
    ELSE uint256_LessFrom(a, b, i - 1)

uint256_Less(a, b) == uint256_LessFrom(a, b, 7)

\* operator== (memcmp of the eight words)
uint256_Eq(a, b) == \A k \in 1..8 : a[k] = b[k]

\* a faulty operator<=: equality is left out
uint256_LessEq_Strict(a, b) == uint256_Less(a, b)

\* operator<=
uint256_LessEq(a, b) == uint256_Less(a, b) \/ uint256_Eq(a, b)

\* --------------------------------------------------------- BlockHeader

\* a faulty integer field: most significant byte first
LE4_BigEndian(x) == << U32Byte(x, 3), U32Byte(x, 2), U32Byte(x, 1), U32Byte(x, 0) >>

\* a uint32_t field, little endian
LE4(x) == << U32Byte(x, 0), U32Byte(x, 1), U32Byte(x, 2), U32Byte(x, 3) >>

\* a faulty hash field: the bytes in display order
HashBytesOf_DisplayOrder(s) ==
        [k \in 1..32 |-> strtol16(SubSeq(s, 2 * k - 1, 2 * k))]

\* a hash field: the hex display read backwards in byte pairs (i = 62, 60, .. 0)
HashBytesOf(s) ==
        [k \in 1..32 |-> strtol16(SubSeq(s, 63 - 2 * (k - 1), 64 - 2 * (k - 1)))]

\* the field's hex display evaluated once
HashBytes(u) == CHOOSE r \in {HashBytesOf(x) : x \in {GetHex(u)}} : TRUE

Serialize(h) ==
    LE4(h.nVersion) \o HashBytes(h.hashPrevBlock) \o HashBytes(h.hashMerkleRoot) \o
    LE4(h.nTime) \o LE4(h.nBits) \o LE4(h.nNonce)

\* ------------------------------------------- standalone miner: constants

\* genesis.nTime = 1737933600
GenesisTime == 1737933600

\* genesis.nBits = 0x1d00ffff
GenesisBits == 486604799

\* hashes % 100000
ReportEvery == 100000

PrevBlockHex == Rep("0", 64)

MerkleRootHex ==
    <<"4","a","5","e","1","e","4","b","a","a","b","8","9","f","3","a">> \o
    <<"3","2","5","1","8","a","8","8","c","3","1","b","c","8","7","f">> \o
    <<"6","1","8","f","7","6","6","7","3","e","2","c","c","7","7","a">> \o
    <<"b","2","1","2","7","b","7","a","f","d","e","d","a","3","3","b">>

\* a faulty target literal: the mantissa one byte lower
TargetHex_ByteLower == Rep("0", 10) \o Rep("f", 4) \o Rep("0", 50)

TargetHex == Rep("0", 8) \o Rep("f", 4) \o Rep("0", 52)

\* the header main() builds, with the search at nonce n
GenesisHeader(n) ==
    [ nVersion       |-> U32FromNat(1),
      hashPrevBlock  |-> SetHex(PrevBlockHex),
      hashMerkleRoot |-> SetHex(MerkleRootHex),
      nTime          |-> U32FromNat(GenesisTime),
      nBits          |-> U32FromNat(GenesisBits),
      nNonce         |-> n ]

\* a faulty step of the search: the nonce advances by two
NextCandidate_SkipsOne(h) ==
    LET n == U32Add(h.nNonce, 2)
    IN  IF U32Less(n, h.nNonce)
        THEN [h EXCEPT !.nTime = U32Inc(@), !.nNonce = U32Zero]
        ELSE [h EXCEPT !.nNonce = n]

\* a faulty step of the search: an overflow rolls the version as well
NextCandidate_RollsVersion(h) ==
    LET n == U32Inc(h.nNonce)
    IN  IF n = U32Zero
        THEN [h EXCEPT !.nTime = U32Inc(@), !.nNonce = U32Zero, !.nVersion = U32Inc(@)]
        ELSE [h EXCEPT !.nNonce = n]

\* a faulty step of the search: the nonce wraps and the time stays
NextCandidate_KeepsTime(h) == [h EXCEPT !.nNonce = U32Inc(@)]

\* genesis.nNonce++; if (genesis.nNonce == 0) { genesis.nTime++; genesis.nNonce = 0; }
NextCandidate(h) ==
    LET n == U32Inc(h.nNonce)
    IN  IF n = U32Zero
        THEN [h EXCEPT !.nTime = U32Inc(@), !.nNonce = U32Zero]
        ELSE [h EXCEPT !.nNonce = n]

\* a faulty counter: an attempt is counted twice
CountHash_Twice(n) == U64Inc(U64Inc(n))

\* hashes++
CountHash(n) == U64Inc(n)

\* ------------------------------------------------- bounds of the model

\* hash attempts followed from the state the search is picked up in
MaxAttempts == 3

\* The search is picked up at nonce 0 (the state main() starts the loop in), and
\* at two states it reaches after that many failed attempts: two attempts before
\* the progress report at 100000 hashes, and two attempts before the nonce wraps.
SoloStarts == { U32Zero, U32FromNat(99998), U32(65535, 65534) }

\* the headers the loop serializes within MaxAttempts attempts from nonce n
RECURSIVE Window(_, _)
Window(h, k) == IF k = 0 THEN {} ELSE {Serialize(h)} \cup Window(NextCandidate(h), k - 1)

\* Digests the two SHA256 rounds may produce, as the 32 bytes hash[0..31]:
\* zero, the target itself, the target plus one in the last byte, a one in the
\* first byte only, and a value below the target whose last byte is 0xff.
Digest(b1, b5, b6, b32) ==
    [k \in 1..32 |-> CASE k = 1 -> b1 [] k = 5 -> b5 [] k = 6 -> b6 [] k = 32 -> b32
                       [] OTHER -> 0]

DigestSamples ==
    { Digest(0, 0, 0, 0), Digest(0, 255, 255, 0), Digest(0, 255, 255, 1),
      Digest(1, 0, 0, 0), Digest(0, 255, 254, 255) }

\* -------------------------------------------------------------- state

\* state of the multi-threaded miner (AdvancedMiner), used further down
VARIABLES
    config_,          \* MiningConfig config_ (its threads field)
    stop_mining_,     \* std::atomic<bool> stop_mining_
    current_nonce_,   \* std::atomic<uint32_t> current_nonce_
    is_mining,        \* stats_.is_mining
    start_time,       \* stats_.start_time
    hashes_computed,  \* stats_.hashes_computed
    blocks_found,     \* stats_.blocks_found
    hash_rate,        \* stats_.hash_rate, as the quotient num / den
    mining_threads_,  \* std::vector<std::thread>: the worker each element runs
    now,              \* GetTime()
    cpc,              \* the thread that calls StartMining / StopMining: its position
    carg,             \* that thread's locals: the config passed, the loop index
    cret,             \* its last finished call: "start_true", "start_false", "stop" ("none" before)
    wpc,              \* each worker thread's position in MiningLoop / MineBlock
    block,            \* each worker's block_template (NoBlock outside an iteration)
    nonce,            \* MineBlock's loop variable nonce
    nonce_out,        \* MiningLoop's nonce, set by MineBlock through nonce_out
    tested,           \* history: the nonces each worker has hashed
    claimed,          \* history: the fetch_add calls in order, each with its worker and the start returned
    found,            \* history: the nonces MineBlock returned true with, per worker
    submitted,        \* history: the nNonce of each block given to SubmitBlock, per worker
    afterStop,        \* history: hashes each worker computed since the stop flag was set
    faults,           \* history: exceptions thrown so far
    accepted,         \* history: the SubmitBlock calls that returned true, per worker
    evaluated,        \* history: the block hashes MineBlock has computed, all workers
    starts            \* history: StartMining calls that went through

mtVars == << config_, stop_mining_, current_nonce_, is_mining, start_time,
             hashes_computed, blocks_found, hash_rate, mining_threads_, now,
             cpc, carg, cret, wpc, block, nonce, nonce_out,
             tested, claimed, found, submitted, afterStop, faults, accepted, evaluated,
             starts >>

sharedVars == << config_, stop_mining_, current_nonce_, is_mining, start_time,
                 hashes_computed, blocks_found, hash_rate, mining_threads_, now >>
callerVars == << cpc, carg, cret, starts >>
workerVars == << wpc, block, nonce, nonce_out >>
historyVars == << tested, claimed, found, submitted, afterStop, faults, accepted, evaluated >>

VARIABLES
    genesis,     \* BlockHeader genesis
    target,      \* uint256 target
    hashes,      \* uint64_t hashes
    hash,        \* uint256 hash of the current iteration
    spc,         \* position of main(): "hash", "report", "test", "inc", "return", "exit"
    out,         \* what main() has printed: progress lines, overflow lines, the result
    exitCode,    \* the value main() returned, -1 while it runs
    sha,         \* the two SHA256 rounds, as a function of the serialized header
    startNonce,  \* the nonce the search was picked up at
    visited      \* history: the (time, nonce) of every header hashed, in order

soloVars == << genesis, target, hashes, hash, spc, out, exitCode, sha, startNonce, visited >>

\* one call of a function of the header codec (Serialize, Hash, SetHex, operator<)
VARIABLES
    call,        \* the function called and its arguments
    result       \* what it returned; done is FALSE until it returns

codecVars == << call, result >>

\* MineCustomCoinGenesisBlock(genesis, powLimit)
VARIABLES
    kgenesis,    \* CBlock& genesis: its nTime, nBits and nNonce
    powLimit,    \* const uint256& powLimit, as its 32 bytes
    hashTarget,  \* arith_uint256 hashTarget
    nNonce,      \* uint32_t nNonce
    khash,       \* uint256 hash of the current iteration, as its 32 bytes
    kpc,         \* position: "off", "target", "hash", "test", "inc", "returned"
    kret,        \* the value returned
    GetHash,     \* genesis.GetHash(), as a function of the header's (nTime, nNonce)
    kstart,      \* the nonce the search was picked up at
    kvisited     \* history: the (nTime, nNonce) of every header hashed, in order

kernelVars == << kgenesis, powLimit, hashTarget, nNonce, khash, kpc, kret, GetHash,
                 kstart, kvisited >>

\* spoofcoin-miner: main(), SetupMiner, RunBenchmark
VARIABLES
    margs,       \* gArgs after ParseParameters: what the command line gave
    hw,          \* std::thread::hardware_concurrency(), 0 read as 1
    mpc,         \* position of main()
    mexit,       \* the value main() returned, -1 while it runs
    g_running,   \* static bool g_running
    g_miner,     \* static std::unique_ptr g_miner: TRUE once it holds a miner
    mconfig,     \* MiningConfig config: its threads, and whether mining_address is set
    hstack,      \* the SignalHandler calls under way on the main thread, innermost last,
                 \* each with the position of the code it interrupted
    delivered    \* history: the signals delivered, each with whether the miner was
                 \* mining and whether StartMining had returned to main() then

sigVars == << hstack, delivered >>

mainVars == << margs, hw, mpc, mexit, g_running, g_miner, mconfig, sigVars >>

\* what the standalone miner and the multi-threaded miner never touch
\* a second thread that calls StartMining / StopMining on the same miner
VARIABLES
    other        \* that thread's position, locals and last result while the first one
                 \* runs; the two change places when the other thread is scheduled

concVars == << other >>

\* NFTSystem: its static members
VARIABLES
    nft_metadata_,          \* the nft ids CreateNFT has made entries for
    nft_ownership_,         \* per nft id the vector of NFTOwnership: token_id, owner_address
    royalty_info_,          \* per nft id: whether an entry exists, its primary_percentage
                            \* and total_royalties_paid
    marketplace_listings_,  \* the listings, "LISTING_n" at index n
    nft_auctions_,          \* the auctions, "AUCTION_n" at index n
    next_nft_id_,           \* next_nft_id_
    nret                    \* the last call made: its name, what it returned, and for
                            \* marketplace calls the listing or auction and the buyer

nftVars == << nft_metadata_, nft_ownership_, royalty_info_, marketplace_listings_,
              nft_auctions_, next_nft_id_, nret >>

\* DeFiProtocol: its static members
VARIABLES
    liquidity_pools_,       \* per pool id the LiquidityPool, or that no entry exists
    swaps,                  \* history: ExecuteSwap calls made
    dret                    \* the last call made and what it returned; for ExecuteSwap
                            \* also its arguments and liquidity_pools_ as it was before

defiVars == << liquidity_pools_, swaps, dret >>

extraVars == << concVars, nftVars, defiVars >>

toolVars == << codecVars, kernelVars, mainVars, extraVars >>

\* SHA256_Init/Update/Final twice: hash[0..31]
SHA256d(data) == sha[data]

\* Hash(): the digest printed as hex, hash[0] first, and read back by SetHex
HashOf(h) ==
    LET RECURSIVE HexOf(_)
        HexOf(i) == IF i > 32 THEN << >>
                    ELSE << HexChar(h[i] \div 16), HexChar(h[i] % 16) >> \o HexOf(i + 1)
    IN  SetHex(HexOf(1))

\* Hash(), the digest bytes evaluated once
Hash(data) == CHOOSE r \in {HashOf(x) : x \in {SHA256d(data)}} : TRUE

SoloInit ==
    /\ startNonce \in SoloStarts
    /\ genesis = GenesisHeader(startNonce)
    /\ target = SetHex(TargetHex)
    /\ hashes = U64FromU32(startNonce)
    /\ hash = uint256_Zero
    /\ spc = "hash"
    /\ out = << >>
    /\ exitCode = -1
    /\ sha \in [Window(GenesisHeader(startNonce), MaxAttempts) -> DigestSamples]
    /\ visited = << >>

\* lines 153-156: serialize, hash, count
ComputeHash ==
    /\ spc = "hash"
    /\ Len(visited) < MaxAttempts
    /\ hash' = Hash(Serialize(genesis))
    /\ hashes' = CountHash(hashes)
    /\ visited' = Append(visited, << genesis.nTime, genesis.nNonce >>)
    /\ spc' = "report"
    /\ UNCHANGED << genesis, target, out, exitCode, sha, startNonce >>
    /\ UNCHANGED << mtVars, toolVars >>

\* a faulty progress line: printing it restarts the count of the reporting period
Report_ResetsCount ==
    /\ spc = "report"
    /\ out' = IF U64Mod(hashes, ReportEvery) = 0
              THEN Append(out, [kind |-> "progress", hashes |-> hashes, hash |-> GetHex(hash)])
              ELSE out
    /\ hashes' = IF U64Mod(hashes, ReportEvery) = 0 THEN U64FromU32(U32Zero) ELSE hashes
    /\ spc' = "test"
    /\ UNCHANGED << genesis, target, hash, exitCode, sha, startNonce, visited >>
    /\ UNCHANGED << mtVars, toolVars >>

\* lines 158-163: the progress line
Report ==
    /\ spc = "report"
    /\ out' = IF U64Mod(hashes, ReportEvery) = 0
              THEN Append(out, [kind |-> "progress", hashes |-> hashes, hash |-> GetHex(hash)])
              ELSE out
    /\ spc' = "test"
    /\ UNCHANGED << genesis, target, hashes, hash, exitCode, sha, startNonce, visited >>
    /\ UNCHANGED << mtVars, toolVars >>

\* lines 165-176: the success test, the result lines and the break
TestSuccess ==
    /\ spc = "test"
    /\ IF uint256_LessEq(hash, target)
       THEN /\ out' = Append(out, [kind |-> "found", nonce |-> genesis.nNonce,
                                   hash |-> GetHex(hash), hashes |-> hashes])
            /\ spc' = "return"
       ELSE /\ out' = out
            /\ spc' = "inc"
    /\ UNCHANGED << genesis, target, hashes, hash, exitCode, sha, startNonce, visited >>
    /\ UNCHANGED << mtVars, toolVars >>

\* lines 178-183: the next nonce; when the nonce wrapped, the overflow line and the
\* next time
IncrementNonce ==
    /\ spc = "inc"
    /\ genesis' = NextCandidate(genesis)
    /\ out' = IF U32Inc(genesis.nNonce) = U32Zero
              THEN Append(out, [kind |-> "overflow"])
              ELSE out
    /\ spc' = "hash"
    /\ UNCHANGED << target, hashes, hash, exitCode, sha, startNonce, visited >>
    /\ UNCHANGED << mtVars, toolVars >>

\* line 186: return 0
ReturnMain ==
    /\ spc = "return"
    /\ exitCode' = 0
    /\ spc' = "exit"
    /\ UNCHANGED << genesis, target, hashes, hash, out, sha, startNonce, visited >>
    /\ UNCHANGED << mtVars, toolVars >>


\* ------------------------------------ multi-threaded miner: AdvancedMiner

\* threads a MiningConfig may ask for (config.threads = 1 .. MaxThreads)
MaxThreads == 2

\* nonces one MineBlock call claims with fetch_add; the code claims 1000
RangeSize == 1

\* MineBlock calls followed, over all workers
MaxClaims == 2

\* exceptions followed, over all workers
MaxFaults == 1

\* StartMining calls that are let through
MaxStarts == 1

\* seconds GetTime() advances
MaxTime == 1

Workers == 1..MaxThreads

\* block->nBits = 0x207fffff
TemplateBits == 545259519


\* a block template that does not exist (before CreateBlockTemplate, after the iteration)
NoBlock == [nVersion |-> 0, nBits |-> U32Zero, nNonce |-> U32Zero, live |-> FALSE]

\* AdvancedMiner(): stats_.start_time = GetTime(); every other member at its initializer
MTInit ==
    /\ config_ = [threads |-> 1]
    /\ stop_mining_ = FALSE
    /\ current_nonce_ = U32Zero
    /\ is_mining = FALSE
    /\ now = 0
    /\ start_time = 0
    /\ hashes_computed = 0
    /\ blocks_found = 0
    /\ hash_rate = [num |-> 0, den |-> 1]
    /\ mining_threads_ = << >>
    /\ cpc = "idle"
    /\ carg = [threads |-> 0, i |-> 0]
    /\ cret = "none"
    /\ wpc = [w \in Workers |-> "none"]
    /\ block = [w \in Workers |-> NoBlock]
    /\ nonce = [w \in Workers |-> U32Zero]
    /\ nonce_out = [w \in Workers |-> U32Zero]
    /\ tested = [w \in Workers |-> {}]
    /\ claimed = << >>
    /\ found = [w \in Workers |-> << >>]
    /\ submitted = [w \in Workers |-> << >>]
    /\ accepted = [w \in Workers |-> 0]
    /\ evaluated = 0
    /\ afterStop = [w \in Workers |-> 0]
    /\ faults = 0
    /\ starts = 0

\* ---- StartMining (lines 28-47)

\* a faulty StartMining: config_ = config comes before the test
StartMining_Check_StoresFirst(n) ==
    /\ cpc = "idle"
    /\ is_mining \/ starts < MaxStarts
    /\ config_' = [threads |-> n]
    /\ IF is_mining
       THEN /\ cret' = "start_false"
            /\ UNCHANGED << cpc, carg, starts >>
       ELSE /\ cpc' = "start_stop"
            /\ carg' = [threads |-> n, i |-> 0]
            /\ starts' = starts + 1
            /\ cret' = "none"
    /\ UNCHANGED << stop_mining_, current_nonce_, is_mining, start_time, hashes_computed,
                    blocks_found, hash_rate, mining_threads_, now >>
    /\ UNCHANGED << workerVars, historyVars >>
    /\ UNCHANGED << soloVars, toolVars >>

\* if (stats_.is_mining.load()) return false;  config_ = config;
StartMining_Check(n) ==
    /\ cpc = "idle"
    /\ is_mining \/ starts < MaxStarts
    /\ IF is_mining
       THEN /\ cret' = "start_false"
            /\ UNCHANGED << cpc, carg, config_, starts >>
       ELSE /\ cpc' = "start_stop"
            /\ config_' = [threads |-> n]
            /\ carg' = [threads |-> n, i |-> 0]
            /\ starts' = starts + 1
            /\ cret' = "none"
    /\ UNCHANGED << stop_mining_, current_nonce_, is_mining, start_time, hashes_computed,
                    blocks_found, hash_rate, mining_threads_, now >>
    /\ UNCHANGED << workerVars, historyVars >>
    /\ UNCHANGED << soloVars, toolVars >>

\* stop_mining_ = false;
StartMining_ClearStop ==
    /\ cpc = "start_stop"
    /\ stop_mining_' = FALSE
    /\ afterStop' = [w \in Workers |-> 0]
    /\ cpc' = "start_flag"
    /\ UNCHANGED << config_, current_nonce_, is_mining, start_time, hashes_computed,
                    blocks_found, hash_rate, mining_threads_, now >>
    /\ UNCHANGED << carg, cret, starts, workerVars >>
    /\ UNCHANGED << tested, claimed, found, submitted, faults, accepted, evaluated >>
    /\ UNCHANGED << soloVars, toolVars >>

\* stats_.is_mining = true;
StartMining_SetMining ==
    /\ cpc = "start_flag"
    /\ is_mining' = TRUE
    /\ cpc' = "start_time"
    /\ UNCHANGED << config_, stop_mining_, current_nonce_, start_time, hashes_computed,
                    blocks_found, hash_rate, mining_threads_, now >>
    /\ UNCHANGED << carg, cret, starts, workerVars, historyVars >>
    /\ UNCHANGED << soloVars, toolVars >>

\* stats_.start_time = GetTime();
StartMining_SetTime ==
    /\ cpc = "start_time"
    /\ start_time' = now
    /\ cpc' = "spawn"
    /\ UNCHANGED << config_, stop_mining_, current_nonce_, is_mining, hashes_computed,
                    blocks_found, hash_rate, mining_threads_, now >>
    /\ UNCHANGED << carg, cret, starts, workerVars, historyVars >>
    /\ UNCHANGED << soloVars, toolVars >>

\* the names not held by a thread that exists: of no thread yet, or of one joined
FreeWorkers == {w \in Workers : wpc[w] \in {"none", "joined"}}

\* the name the model gives the next std::thread constructed: the first one free
NewWorker == CHOOSE w \in FreeWorkers : \A v \in FreeWorkers : w <= v

\* for (i < config_.threads) mining_threads_.emplace_back(&MiningLoop, this, i);  return true;
StartMining_Spawn ==
    /\ cpc = "spawn"
    /\ carg.i < config_.threads => FreeWorkers # {}
    /\ IF carg.i < config_.threads
       THEN /\ mining_threads_' = Append(mining_threads_, NewWorker)
            /\ wpc' = [wpc EXCEPT ![NewWorker] = "while"]
            /\ carg' = [carg EXCEPT !.i = @ + 1]
            /\ UNCHANGED << cpc, cret >>
       ELSE /\ cpc' = "idle"
            /\ cret' = "start_true"
            /\ UNCHANGED << mining_threads_, wpc, carg >>
    /\ UNCHANGED << config_, stop_mining_, current_nonce_, is_mining, start_time,
                    hashes_computed, blocks_found, hash_rate, now >>
    /\ UNCHANGED << starts, block, nonce, nonce_out, historyVars >>
    /\ UNCHANGED << soloVars, toolVars >>

\* ---- StopMining (lines 49-67)

\* if (!stats_.is_mining.load()) return;
StopMining_Check ==
    /\ cpc = "idle"
    /\ is_mining
    /\ cpc' = "stop_flag"
    /\ cret' = "none"
    /\ UNCHANGED << sharedVars, carg, starts, workerVars, historyVars >>
    /\ UNCHANGED << soloVars, toolVars >>

\* a faulty StopMining: stop_mining_ = true comes before the test
StopMining_Idle_SetsStop ==
    /\ cpc = "idle"
    /\ ~is_mining
    /\ stop_mining_' = TRUE
    /\ cret' = "stop"
    /\ UNCHANGED << config_, current_nonce_, is_mining, start_time, hashes_computed,
                    blocks_found, hash_rate, mining_threads_, now >>
    /\ UNCHANGED << cpc, carg, starts, workerVars, historyVars >>
    /\ UNCHANGED << soloVars, toolVars >>

\* the same call when the miner is not mining: it returns at once
StopMining_Idle ==
    /\ cpc = "idle"
    /\ ~is_mining
    /\ cret' = "stop"
    /\ UNCHANGED << sharedVars, cpc, carg, starts, workerVars, historyVars >>
    /\ UNCHANGED << soloVars, toolVars >>

\* stop_mining_ = true;
StopMining_SetStop ==
    /\ cpc = "stop_flag"
    /\ stop_mining_' = TRUE
    /\ cpc' = "stop_mining"
    /\ UNCHANGED << config_, current_nonce_, is_mining, start_time, hashes_computed,
                    blocks_found, hash_rate, mining_threads_, now >>
    /\ UNCHANGED << carg, cret, starts, workerVars, historyVars >>
    /\ UNCHANGED << soloVars, toolVars >>

\* stats_.is_mining = false;
StopMining_ClearMining ==
    /\ cpc = "stop_mining"
    /\ is_mining' = FALSE
    /\ cpc' = "join"
    /\ carg' = [carg EXCEPT !.i = 1]
    /\ UNCHANGED << config_, stop_mining_, current_nonce_, start_time, hashes_computed,
                    blocks_found, hash_rate, mining_threads_, now >>
    /\ UNCHANGED << cret, starts, workerVars, historyVars >>
    /\ UNCHANGED << soloVars, toolVars >>

\* a faulty join loop: it ends after the first thread
StopMining_Join_FirstOnly ==
    /\ cpc = "join"
    /\ carg.i <= Len(mining_threads_)
    /\ wpc[mining_threads_[carg.i]] \in {"done", "joined"}
    /\ wpc' = [wpc EXCEPT ![mining_threads_[carg.i]] = "joined"]
    /\ carg' = [carg EXCEPT !.i = Len(mining_threads_) + 1]
    /\ UNCHANGED << sharedVars, cpc, cret, starts, block, nonce, nonce_out, historyVars >>
    /\ UNCHANGED << soloVars, toolVars >>

\* a faulty join: the loop goes on without waiting for the thread's end
StopMining_Join_NoWait ==
    /\ cpc = "join"
    /\ carg.i <= Len(mining_threads_)
    /\ carg' = [carg EXCEPT !.i = @ + 1]
    /\ UNCHANGED << sharedVars, cpc, cret, starts, workerVars, historyVars >>
    /\ UNCHANGED << soloVars, toolVars >>

\* for (auto& thread : mining_threads_) if (thread.joinable()) thread.join();
\* join() returns once the thread's MiningLoop has returned
StopMining_Join ==
    /\ cpc = "join"
    /\ carg.i <= Len(mining_threads_)
    /\ wpc[mining_threads_[carg.i]] \in {"done", "joined"}
    /\ wpc' = [wpc EXCEPT ![mining_threads_[carg.i]] = "joined"]
    /\ carg' = [carg EXCEPT !.i = @ + 1]
    /\ UNCHANGED << sharedVars, cpc, cret, starts, block, nonce, nonce_out, historyVars >>
    /\ UNCHANGED << soloVars, toolVars >>

\* mining_threads_.clear();
StopMining_Clear ==
    /\ cpc = "join"
    /\ carg.i > Len(mining_threads_)
    /\ mining_threads_' = << >>
    /\ cpc' = "idle"
    /\ cret' = "stop"
    /\ UNCHANGED << config_, stop_mining_, current_nonce_, is_mining, start_time,
                    hashes_computed, blocks_found, hash_rate, now >>
    /\ UNCHANGED << carg, starts, workerVars, historyVars >>
    /\ UNCHANGED << soloVars, toolVars >>

\* ---- MiningLoop (lines 69-103), MineBlock (145-165), SubmitBlock (167-174)

\* SubmitBlock: logs the block hash and returns true
SubmitBlock(b) == TRUE

\* CreateBlockTemplate: a new CBlock with nBits, nNonce = 0, nVersion = 1.  Its nTime
\* and its coinbase transaction only enter the block hash, which W_Hash leaves open.
CreateBlockTemplate ==
    [nVersion |-> 1, nBits |-> U32FromNat(TemplateBits), nNonce |-> U32Zero, live |-> TRUE]

\* while (!stop_mining_.load())
W_While(w) ==
    /\ wpc[w] = "while"
    /\ stop_mining_ \/ Len(claimed) < MaxClaims
    /\ wpc' = [wpc EXCEPT ![w] = IF stop_mining_ THEN "done" ELSE "template"]
    /\ UNCHANGED << sharedVars, callerVars, block, nonce, nonce_out, historyVars >>
    /\ UNCHANGED << soloVars, toolVars >>

\* auto block_template = CreateBlockTemplate();
W_Template(w) ==
    /\ wpc[w] = "template"
    /\ block' = [block EXCEPT ![w] = CreateBlockTemplate]
    /\ wpc' = [wpc EXCEPT ![w] = "mine"]
    /\ UNCHANGED << sharedVars, callerVars, nonce, nonce_out, historyVars >>
    /\ UNCHANGED << soloVars, toolVars >>

\* a faulty claim: the counter is read with load() and not advanced
W_Claim_LoadOnly(w) ==
    /\ wpc[w] = "mine"
    /\ nonce' = [nonce EXCEPT ![w] = current_nonce_]
    /\ claimed' = Append(claimed, [worker |-> w, start |-> current_nonce_])
    /\ wpc' = [wpc EXCEPT ![w] = "cond"]
    /\ UNCHANGED << sharedVars >>
    /\ UNCHANGED << callerVars, block, nonce_out, tested, found, submitted, afterStop, faults,
                    accepted, evaluated >>
    /\ UNCHANGED << soloVars, toolVars >>

\* MineBlock: uint32_t nonce = current_nonce_.fetch_add(1000)
W_Claim(w) ==
    /\ wpc[w] = "mine"
    /\ nonce' = [nonce EXCEPT ![w] = current_nonce_]
    /\ current_nonce_' = U32Add(current_nonce_, RangeSize)
    /\ claimed' = Append(claimed, [worker |-> w, start |-> current_nonce_])
    /\ wpc' = [wpc EXCEPT ![w] = "cond"]
    /\ UNCHANGED << config_, stop_mining_, is_mining, start_time, hashes_computed,
                    blocks_found, hash_rate, mining_threads_, now >>
    /\ UNCHANGED << callerVars, block, nonce_out, tested, found, submitted, afterStop, faults,
                    accepted, evaluated >>
    /\ UNCHANGED << soloVars, toolVars >>

\* the loop test, first half: nonce < current_nonce_.load() + 1000
W_CondRange(w) ==
    /\ wpc[w] = "cond"
    /\ wpc' = [wpc EXCEPT ![w] =
                 IF U32Less(nonce[w], U32Add(current_nonce_, RangeSize))
                 THEN "cond_stop" ELSE "stats"]
    /\ UNCHANGED << sharedVars, callerVars, block, nonce, nonce_out, historyVars >>
    /\ UNCHANGED << soloVars, toolVars >>

\* a faulty loop test: the stop flag is not read
W_CondStop_IgnoresStop(w) ==
    /\ wpc[w] = "cond_stop"
    /\ wpc' = [wpc EXCEPT ![w] = "hash"]
    /\ UNCHANGED << sharedVars, callerVars, block, nonce, nonce_out, historyVars >>
    /\ UNCHANGED << soloVars, toolVars >>

\* the loop test, second half: && !stop_mining_.load()
W_CondStop(w) ==
    /\ wpc[w] = "cond_stop"
    /\ wpc' = [wpc EXCEPT ![w] = IF ~stop_mining_ THEN "hash" ELSE "stats"]
    /\ UNCHANGED << sharedVars, callerVars, block, nonce, nonce_out, historyVars >>
    /\ UNCHANGED << soloVars, toolVars >>

\* a faulty MineBlock: the workers hash one shared header
W_Hash_SharedHeader(w) ==
    /\ wpc[w] = "hash"
    /\ block' = [v \in Workers |->
                   IF block[v].live \/ v = w THEN [block[v] EXCEPT !.nNonce = nonce[w]]
                   ELSE block[v]]
    /\ tested' = [tested EXCEPT ![w] = @ \cup {nonce[w]}]
    /\ afterStop' = [afterStop EXCEPT ![w] = IF stop_mining_ THEN @ + 1 ELSE @]
    /\ \E hit \in BOOLEAN :
          IF hit
          THEN /\ nonce_out' = [nonce_out EXCEPT ![w] = nonce[w]]
               /\ found' = [found EXCEPT ![w] = Append(@, nonce[w])]
               /\ wpc' = [wpc EXCEPT ![w] = "submit"]
          ELSE /\ wpc' = [wpc EXCEPT ![w] = "count"]
               /\ UNCHANGED << nonce_out, found >>
    /\ evaluated' = evaluated + 1
    /\ UNCHANGED << sharedVars, callerVars, nonce, claimed, submitted, faults, accepted >>
    /\ UNCHANGED << soloVars, toolVars >>

\* a faulty MineBlock: it returns true and leaves nonce_out as it was
W_Hash_StaleNonce(w) ==
    /\ wpc[w] = "hash"
    /\ block' = [block EXCEPT ![w].nNonce = nonce[w]]
    /\ tested' = [tested EXCEPT ![w] = @ \cup {nonce[w]}]
    /\ afterStop' = [afterStop EXCEPT ![w] = IF stop_mining_ THEN @ + 1 ELSE @]
    /\ \E hit \in BOOLEAN :
          IF hit
          THEN /\ found' = [found EXCEPT ![w] = Append(@, nonce[w])]
               /\ wpc' = [wpc EXCEPT ![w] = "submit"]
          ELSE /\ wpc' = [wpc EXCEPT ![w] = "count"]
               /\ UNCHANGED found
    /\ evaluated' = evaluated + 1
    /\ UNCHANGED << sharedVars, callerVars, nonce, nonce_out, claimed, submitted, faults,
                    accepted >>
    /\ UNCHANGED << soloVars, toolVars >>

\* block.nNonce = nonce; if (UintToArith256(block.GetHash()) <= target) { nonce_out = nonce; return true; }
\* The block hash is a digest of a header that carries GetTime(): it may fall on
\* either side of the target.
W_Hash(w) ==
    /\ wpc[w] = "hash"
    /\ block' = [block EXCEPT ![w].nNonce = nonce[w]]
    /\ tested' = [tested EXCEPT ![w] = @ \cup {nonce[w]}]
    /\ afterStop' = [afterStop EXCEPT ![w] = IF stop_mining_ THEN @ + 1 ELSE @]
    /\ \E hit \in BOOLEAN :
          IF hit
          THEN /\ nonce_out' = [nonce_out EXCEPT ![w] = nonce[w]]
               /\ found' = [found EXCEPT ![w] = Append(@, nonce[w])]
               /\ wpc' = [wpc EXCEPT ![w] = "submit"]
          ELSE /\ wpc' = [wpc EXCEPT ![w] = "count"]
               /\ UNCHANGED << nonce_out, found >>
    /\ evaluated' = evaluated + 1
    /\ UNCHANGED << sharedVars, callerVars, nonce, claimed, submitted, faults, accepted >>
    /\ UNCHANGED << soloVars, toolVars >>

\* stats_.hashes_computed++;  ++nonce
W_Count(w) ==
    /\ wpc[w] = "count"
    /\ hashes_computed' = hashes_computed + 1
    /\ nonce' = [nonce EXCEPT ![w] = U32Inc(@)]
    /\ wpc' = [wpc EXCEPT ![w] = "cond"]
    /\ UNCHANGED << config_, stop_mining_, current_nonce_, is_mining, start_time,
                    blocks_found, hash_rate, mining_threads_, now >>
    /\ UNCHANGED << callerVars, block, nonce_out, historyVars >>
    /\ UNCHANGED << soloVars, toolVars >>

\* block_template->nNonce = nonce; if (SubmitBlock(*block_template)) ...
W_Submit(w) ==
    /\ wpc[w] = "submit"
    /\ block' = [block EXCEPT ![w].nNonce = nonce_out[w]]
    /\ submitted' = [submitted EXCEPT ![w] = Append(@, block'[w].nNonce)]
    /\ wpc' = [wpc EXCEPT ![w] = IF SubmitBlock(block'[w]) THEN "found" ELSE "stats"]
    /\ accepted' = [accepted EXCEPT ![w] = IF SubmitBlock(block'[w]) THEN @ + 1 ELSE @]
    /\ UNCHANGED << sharedVars, callerVars, nonce, nonce_out, tested, claimed, found,
                    afterStop, faults, evaluated >>
    /\ UNCHANGED << soloVars, toolVars >>

\* a faulty success counter: the worker stores its own number of blocks
W_BlocksFound_StoresOwn(w) ==
    /\ wpc[w] = "found"
    /\ blocks_found' = accepted[w]
    /\ wpc' = [wpc EXCEPT ![w] = "stats"]
    /\ UNCHANGED << config_, stop_mining_, current_nonce_, is_mining, start_time,
                    hashes_computed, hash_rate, mining_threads_, now >>
    /\ UNCHANGED << callerVars, block, nonce, nonce_out, historyVars >>
    /\ UNCHANGED << soloVars, toolVars >>

\* a faulty success counter: a found block ends the mining of every worker
W_BlocksFound_StopsAll(w) ==
    /\ wpc[w] = "found"
    /\ blocks_found' = blocks_found + 1
    /\ stop_mining_' = TRUE
    /\ wpc' = [wpc EXCEPT ![w] = "stats"]
    /\ UNCHANGED << config_, current_nonce_, is_mining, start_time,
                    hashes_computed, hash_rate, mining_threads_, now >>
    /\ UNCHANGED << callerVars, block, nonce, nonce_out, historyVars >>
    /\ UNCHANGED << soloVars, toolVars >>

\* stats_.blocks_found++;
W_BlocksFound(w) ==
    /\ wpc[w] = "found"
    /\ blocks_found' = blocks_found + 1
    /\ wpc' = [wpc EXCEPT ![w] = "stats"]
    /\ UNCHANGED << config_, stop_mining_, current_nonce_, is_mining, start_time,
                    hashes_computed, hash_rate, mining_threads_, now >>
    /\ UNCHANGED << callerVars, block, nonce, nonce_out, historyVars >>
    /\ UNCHANGED << soloVars, toolVars >>

\* UpdateStats(): if (elapsed > 0) stats_.hash_rate = hashes_computed / elapsed;
\* then the iteration ends and block_template is destroyed
W_UpdateStats(w) ==
    /\ wpc[w] = "stats"
    /\ hash_rate' = IF now - start_time > 0
                    THEN [num |-> hashes_computed, den |-> now - start_time]
                    ELSE hash_rate
    /\ block' = [block EXCEPT ![w] = NoBlock]
    /\ wpc' = [wpc EXCEPT ![w] = "while"]
    /\ UNCHANGED << config_, stop_mining_, current_nonce_, is_mining, start_time,
                    hashes_computed, blocks_found, mining_threads_, now >>
    /\ UNCHANGED << callerVars, nonce, nonce_out, historyVars >>
    /\ UNCHANGED << soloVars, toolVars >>

\* the calls of one attempt that can throw: template creation, hashing, submission,
\* the statistics update
FaultPoints == {"template", "hash", "submit", "stats"}

\* One of those calls throws (every exception the called code raises derives from
\* std::exception): the template is destroyed and control goes to the catch clause.
\* An exception out of SubmitBlock leaves a call that was made.
W_Fault(w) ==
    /\ wpc[w] \in FaultPoints
    /\ faults < MaxFaults
    /\ faults' = faults + 1
    /\ block' = [block EXCEPT ![w] = NoBlock]
    /\ submitted' = IF wpc[w] = "submit"
                    THEN [submitted EXCEPT ![w] = Append(@, nonce_out[w])]
                    ELSE submitted
    /\ wpc' = [wpc EXCEPT ![w] = "catch"]
    /\ UNCHANGED << sharedVars, callerVars, nonce, nonce_out, tested, claimed, found,
                    afterStop, accepted, evaluated >>
    /\ UNCHANGED << soloVars, toolVars >>

\* a faulty handler: the exception ends the worker's MiningLoop
W_Backoff_Exits(w) ==
    /\ wpc[w] = "catch"
    /\ wpc' = [wpc EXCEPT ![w] = "done"]
    /\ UNCHANGED << sharedVars, callerVars, block, nonce, nonce_out, historyVars >>
    /\ UNCHANGED << soloVars, toolVars >>

\* the handler: log, sleep_for(1 s), and back to the loop test
W_Backoff(w) ==
    /\ wpc[w] = "catch"
    /\ wpc' = [wpc EXCEPT ![w] = "while"]
    /\ UNCHANGED << sharedVars, callerVars, block, nonce, nonce_out, historyVars >>
    /\ UNCHANGED << soloVars, toolVars >>

\* a second of GetTime() passes
Tick ==
    /\ now < MaxTime
    /\ now' = now + 1
    /\ UNCHANGED << config_, stop_mining_, current_nonce_, is_mining, start_time,
                    hashes_computed, blocks_found, hash_rate, mining_threads_ >>
    /\ UNCHANGED << callerVars, workerVars, historyVars >>
    /\ UNCHANGED << soloVars, toolVars >>

\* a StopMining call that is under way
StopMining_Run ==
    StopMining_SetStop \/ StopMining_ClearMining \/ StopMining_Join \/ StopMining_Clear

WorkerStep(w) ==
    \/ W_While(w) \/ W_Template(w) \/ W_Claim(w) \/ W_CondRange(w) \/ W_CondStop(w)
    \/ W_Hash(w) \/ W_Count(w) \/ W_Submit(w) \/ W_BlocksFound(w) \/ W_UpdateStats(w)
    \/ W_Fault(w) \/ W_Backoff(w)

CallerStep ==
    \/ \E n \in 1..MaxThreads : StartMining_Check(n)
    \/ StartMining_ClearStop \/ StartMining_SetMining \/ StartMining_SetTime
    \/ StartMining_Spawn
    \/ StopMining_Check \/ StopMining_Idle \/ StopMining_SetStop
    \/ StopMining_ClearMining \/ StopMining_Join \/ StopMining_Clear

MTStep == CallerStep \/ Tick \/ \E w \in Workers : WorkerStep(w)

\* ------------------------------------------- the header codec, call by call

\* values a uint32_t field of a header is given
CodecVersions == { U32FromNat(1), U32(258, 772) }
CodecTimes == { U32FromNat(GenesisTime), U32(32768, 0) }
CodecBits == { U32FromNat(GenesisBits), U32Zero }
CodecNonces == { U32Zero, U32Max, U32(0, 256) }

\* a hex string with the bytes 00, ff, 80 and 01 at both ends
MixedHex ==
    << "0", "0", "f", "f", "8", "0", "0", "1" >> \o Rep("0", 24) \o Rep("a", 24)
    \o << "0", "1", "8", "0", "f", "f", "0", "0" >>

\* values a hash field of a header is given
CodecHashes == { uint256_Zero, SetHex(MerkleRootHex), SetHex(MixedHex) }

\* the headers Serialize is called on
CodecHeaders ==
    [ nVersion : CodecVersions, hashPrevBlock : CodecHashes \ {SetHex(MerkleRootHex)},
      hashMerkleRoot : CodecHashes \ {uint256_Zero}, nTime : CodecTimes,
      nBits : CodecBits, nNonce : CodecNonces ]

\* the headers that differ from h in one field
OneFieldChanged(h) ==
    { g \in CodecHeaders :
        Cardinality({ f \in DOMAIN h : g[f] # h[f] }) = 1 }

\* the strings SetHex is called on: empty, one byte, three bytes, five bytes (past
\* the first word), 64 digits, and more than 64
CodecHexStrings ==
    { << >>, << "0", "1" >>, << "8", "0", "f", "f", "0", "1" >>,
      << "a", "b", "0", "0", "1", "2", "c", "d", "e", "9" >>,
      Rep("0", 64), Rep("f", 64), MerkleRootHex, MixedHex,
      Rep("f", 66), << "1", "2" >> \o Rep("0", 64), MerkleRootHex \o << "a", "b" >> }

\* a uint256 whose word data[k] is w and whose other words are zero
WordAt(k, w) == [i \in 1..8 |-> IF i = k + 1 THEN w ELSE U32Zero]

\* the values operator<, operator<= and operator== are called on
CodecValues ==
    { uint256_Zero, WordAt(0, U32FromNat(1)), WordAt(0, U32(32768, 0)),
      WordAt(3, U32(1, 0)), WordAt(7, U32FromNat(1)), WordAt(7, U32(32768, 0)),
      [WordAt(7, U32FromNat(1)) EXCEPT ![1] = U32Max], [i \in 1..8 |-> U32Max] }

\* no call made
CodecIdle ==
    /\ call = [op |-> "none"]
    /\ result = [done |-> TRUE]

\* one call about to be made
CodecInit ==
    /\ \/ \E h \in CodecHeaders : \E g \in OneFieldChanged(h) :
             call = [op |-> "Serialize", h |-> h, g |-> g]
       \/ \E hex \in CodecHexStrings : call = [op |-> "SetHex", hex |-> hex]
       \/ \E a, b, c \in CodecValues : call = [op |-> "Compare", a |-> a, b |-> b, c |-> c]
    /\ result = [done |-> FALSE]

\* BlockHeader::Serialize() on the header h and on the header g
Codec_Serialize ==
    /\ call.op = "Serialize" /\ ~result.done
    /\ result' = [done |-> TRUE, h |-> Serialize(call.h), g |-> Serialize(call.g)]
    /\ UNCHANGED << call, kernelVars, mainVars, extraVars, soloVars, mtVars >>

\* uint256(hex): the constructor calls SetHex; then GetHex() of the value, and the
\* 32 bytes Serialize writes for a field that holds it
Codec_SetHex ==
    /\ call.op = "SetHex" /\ ~result.done
    /\ result' = [done |-> TRUE, value |-> SetHex(call.hex),
                  hex |-> GetHex(SetHex(call.hex)),
                  bytes |-> HashBytes(SetHex(call.hex))]
    /\ UNCHANGED << call, kernelVars, mainVars, extraVars, soloVars, mtVars >>

\* x < y, x <= y and x == y for every two of the values a, b, c
Codec_Compare ==
    /\ call.op = "Compare" /\ ~result.done
    /\ result' =
         LET v == << call.a, call.b, call.c >>
         IN  [done |-> TRUE,
              lt |-> [i \in 1..3 |-> [j \in 1..3 |-> uint256_Less(v[i], v[j])]],
              le |-> [i \in 1..3 |-> [j \in 1..3 |-> uint256_LessEq(v[i], v[j])]],
              eq |-> [i \in 1..3 |-> [j \in 1..3 |-> uint256_Eq(v[i], v[j])]]]
    /\ UNCHANGED << call, kernelVars, mainVars, extraVars, soloVars, mtVars >>

CodecNext == Codec_Serialize \/ Codec_SetHex \/ Codec_Compare

\* ------------------------------- kernel genesis miner: arith_uint256, uint256

\* a uint256 as its 32 bytes: the bytes given by positions 1..32, zero elsewhere
Blob(f) == [k \in 1..32 |-> IF k \in DOMAIN f THEN f[k] ELSE 0]

\* UintToArith256: word x of the number is the little-endian reading of bytes 4x .. 4x+3
UintToArith256(b) ==
    [x \in 1..8 |-> U32(b[4 * x - 1] + 256 * b[4 * x], b[4 * x - 3] + 256 * b[4 * x - 2])]

\* arith_uint256::SetCompact: size = top byte, word = low 23 bits of the mantissa
\* (the sign flag is masked off); the word shifted right by 8*(3-size) for
\* size <= 3, left by 8*(size-3) otherwise, the bits shifted out of 256 dropped
SetCompact(nCompact) ==
    LET nSize == nCompact.hi \div 256
        nWord == << nCompact.lo % 256, nCompact.lo \div 256, (nCompact.hi % 256) % 128 >>
        at(k) == \* byte k (0 = least significant) of the shifted word
            LET j == k - (nSize - 3)
            IN  IF j \in 0..2 THEN nWord[j + 1] ELSE 0
    IN  UintToArith256([k \in 1..32 |-> at(k - 1)])

\* arith_uint256 comparison: the most significant differing word decides
arith_Less(a, b) ==
    \E k \in 1..8 : /\ U32Less(a[k], b[k])
                    /\ \A j \in (k + 1)..8 : a[j] = b[j]

arith_LessEq(a, b) == a = b \/ arith_Less(a, b)

\* --------------------------------- kernel genesis miner: the search

\* hash attempts followed from the state the search is picked up in
MaxKAttempts == 3

\* nBits of the block passed in: 0x207fffff, 0x1d00ffff, 0x2100ffff (above every
\* limit), 0x02008000 (size below 3), 0x2300ffff and 0xff7fffff (shifted out of
\* 256 bits), 0x20ffffff (sign flag set)
KernelBits ==
    { U32FromNat(TemplateBits), U32FromNat(GenesisBits), U32(8448, 65535),
      U32(512, 32768), U32(8960, 65535), U32(65407, 65535), U32(8447, 65535) }

\* powLimit: 7fff..ff and 00000000ffff..ff
KernelLimits ==
    { [k \in 1..32 |-> IF k = 32 THEN 127 ELSE 255],
      [k \in 1..32 |-> IF k > 28 THEN 0 ELSE 255] }

\* Block hashes GetHash() may give: zero, one, 0x80 in the top byte, and the two
\* values 0x7fffff << 232 and 0xffff << 208 that nBits above decode to
KernelDigests ==
    { Blob(<< >>), Blob(<< 1 >>), Blob(32 :> 128),
      Blob(30 :> 255 @@ 31 :> 255 @@ 32 :> 127), Blob(27 :> 255 @@ 28 :> 255) }

\* The search is picked up at nonce 0 (line 55) and, two attempts before the nonce
\* wraps, at the state it is in after that many failed attempts.
KernelStarts == { U32Zero, U32(65535, 65534) }

\* the (nTime, nNonce) of the headers hashed within k attempts from nonce n
RECURSIVE KWindow(_, _, _)
KWindow(t, n, k) == IF k = 0 THEN {} ELSE {<< t, n >>} \cup KWindow(t, U32Inc(n), k - 1)

\* lines 50-53: the compact target, replaced by powLimit when it is above it
ClampedTarget(nBits, limit) ==
    IF arith_Less(UintToArith256(limit), SetCompact(nBits))
    THEN UintToArith256(limit)
    ELSE SetCompact(nBits)

\* MineCustomCoinGenesisBlock not called
KernelIdle ==
    /\ kgenesis = [nTime |-> U32Zero, nBits |-> U32Zero, nNonce |-> U32Zero]
    /\ powLimit = Blob(<< >>)
    /\ hashTarget = uint256_Zero
    /\ nNonce = U32Zero
    /\ khash = Blob(<< >>)
    /\ kpc = "off"
    /\ kret = U32Zero
    /\ GetHash = << >>
    /\ kstart = U32Zero
    /\ kvisited = << >>

\* The call MineCustomCoinGenesisBlock(genesis, powLimit) at its entry, or picked
\* up at the top of the loop after kstart attempts, all of which failed.
KernelInit ==
    /\ kstart \in KernelStarts
    /\ powLimit \in KernelLimits
    /\ \E bits \in KernelBits, stored \in {U32Zero, U32FromNat(7)} :
          kgenesis = [nTime |-> U32FromNat(GenesisTime), nBits |-> bits,
                      nNonce |-> IF kstart = U32Zero THEN stored
                                 ELSE U32(kstart.hi, kstart.lo - 1)]
    /\ GetHash \in [KWindow(kgenesis.nTime, kstart, MaxKAttempts) -> KernelDigests]
    /\ \A p \in DOMAIN GetHash :
          U32Less(p[2], kstart) =>
              ~arith_LessEq(UintToArith256(GetHash[p]),
                            ClampedTarget(kgenesis.nBits, powLimit))
    /\ hashTarget = IF kstart = U32Zero THEN uint256_Zero
                    ELSE ClampedTarget(kgenesis.nBits, powLimit)
    /\ nNonce = kstart
    /\ kpc = IF kstart = U32Zero THEN "target" ELSE "hash"
    /\ khash = Blob(<< >>)
    /\ kret = U32Zero
    /\ kvisited = << >>

\* a faulty clamp: the limit is not applied
K_Target_NoClamp ==
    /\ kpc = "target"
    /\ hashTarget' = SetCompact(kgenesis.nBits)
    /\ nNonce' = U32Zero
    /\ kpc' = "hash"
    /\ UNCHANGED << kgenesis, powLimit, khash, kret, GetHash, kstart, kvisited >>
    /\ UNCHANGED << codecVars, mainVars, extraVars, soloVars, mtVars >>

\* a faulty clamp: the comparison is the wrong way round
K_Target_ClampUp ==
    /\ kpc = "target"
    /\ hashTarget' = IF arith_Less(SetCompact(kgenesis.nBits), UintToArith256(powLimit))
                     THEN UintToArith256(powLimit)
                     ELSE SetCompact(kgenesis.nBits)
    /\ nNonce' = U32Zero
    /\ kpc' = "hash"
    /\ UNCHANGED << kgenesis, powLimit, khash, kret, GetHash, kstart, kvisited >>
    /\ UNCHANGED << codecVars, mainVars, extraVars, soloVars, mtVars >>

\* a faulty start: the search begins at the nonce stored in the block passed in
K_Target_StoredNonce ==
    /\ kpc = "target"
    /\ hashTarget' = ClampedTarget(kgenesis.nBits, powLimit)
    /\ nNonce' = kgenesis.nNonce
    /\ kpc' = "hash"
    /\ UNCHANGED << kgenesis, powLimit, khash, kret, GetHash, kstart, kvisited >>
    /\ UNCHANGED << codecVars, mainVars, extraVars, soloVars, mtVars >>

\* lines 50-55: hashTarget = SetCompact(nBits), clamped to powLimit; nNonce = 0
K_Target ==
    /\ kpc = "target"
    /\ hashTarget' = ClampedTarget(kgenesis.nBits, powLimit)
    /\ nNonce' = U32Zero
    /\ kpc' = "hash"
    /\ UNCHANGED << kgenesis, powLimit, khash, kret, GetHash, kstart, kvisited >>
    /\ UNCHANGED << codecVars, mainVars, extraVars, soloVars, mtVars >>

\* lines 57-58: genesis.nNonce = nNonce; hash = genesis.GetHash()
K_Hash ==
    /\ kpc = "hash"
    /\ Len(kvisited) < MaxKAttempts
    /\ kgenesis' = [kgenesis EXCEPT !.nNonce = nNonce]
    /\ khash' = GetHash[<< kgenesis.nTime, nNonce >>]
    /\ kvisited' = Append(kvisited, << kgenesis.nTime, nNonce >>)
    /\ kpc' = "test"
    /\ UNCHANGED << powLimit, hashTarget, nNonce, kret, GetHash, kstart >>
    /\ UNCHANGED << codecVars, mainVars, extraVars, soloVars, mtVars >>

\* lines 60-66: if (UintToArith256(hash) <= hashTarget) return nNonce;
K_Test ==
    /\ kpc = "test"
    /\ IF arith_LessEq(UintToArith256(khash), hashTarget)
       THEN /\ kret' = nNonce
            /\ kpc' = "returned"
       ELSE /\ kret' = kret
            /\ kpc' = "inc"
    /\ UNCHANGED << kgenesis, powLimit, hashTarget, nNonce, khash, GetHash, kstart, kvisited >>
    /\ UNCHANGED << codecVars, mainVars, extraVars, soloVars, mtVars >>

\* lines 68-71: nNonce++ (and a progress line every 10000 nonces); the iteration ends
K_Inc ==
    /\ kpc = "inc"
    /\ nNonce' = U32Inc(nNonce)
    /\ khash' = Blob(<< >>)
    /\ kpc' = "hash"
    /\ UNCHANGED << kgenesis, powLimit, hashTarget, kret, GetHash, kstart, kvisited >>
    /\ UNCHANGED << codecVars, mainVars, extraVars, soloVars, mtVars >>

KernelNext == K_Target \/ K_Hash \/ K_Test \/ K_Inc

\* ------------------------------------------------ spoofcoin-miner: main()

\* values of -threads=<n>, as GetIntArg reads them
ThreadArgs == -1..MaxThreads

\* gArgs: ParseParameters' result, and the options main() and SetupMiner read
AllArgs ==
    [ parse_ok : BOOLEAN, help : BOOLEAN, chain : {"spoofcoin", "main"},
      benchmark : BOOLEAN,
      threads : [set : {FALSE}, val : {0}] \cup [set : {TRUE}, val : ThreadArgs],
      address : [set : {FALSE}, val : {""}] \cup [set : {TRUE}, val : {"", "sc1q"}] ]

\* main() gets past the chain test
Dispatched(a) == a.parse_ok /\ ~a.help /\ a.chain = "spoofcoin"

\* The command lines followed: every combination of options that ends before a
\* miner is started; of those that start one, the benchmark without further
\* options, with an empty address and -threads=0, and with a full configuration,
\* and the ordinary run with each thread option.
CommandLines ==
    { a \in AllArgs :
        \/ ~Dispatched(a)
        \/ ~a.benchmark
        \/ /\ a.benchmark
           /\ << a.threads, a.address >> \in
                 { << [set |-> FALSE, val |-> 0], [set |-> FALSE, val |-> ""] >>,
                   << [set |-> TRUE, val |-> 0], [set |-> TRUE, val |-> ""] >>,
                   << [set |-> TRUE, val |-> 1], [set |-> TRUE, val |-> "sc1q"] >> } }

NoConfig == [threads |-> 1, address |-> FALSE]

\* spoofcoin-miner not run
MainIdle ==
    /\ margs = [ parse_ok |-> TRUE, help |-> FALSE, chain |-> "spoofcoin",
                 benchmark |-> FALSE, threads |-> [set |-> FALSE, val |-> 0],
                 address |-> [set |-> FALSE, val |-> ""] ]
    /\ hw = 1
    /\ mpc = "off"
    /\ mexit = -1
    /\ g_running = TRUE
    /\ g_miner = FALSE
    /\ mconfig = NoConfig
    /\ hstack = << >>
    /\ delivered = << >>

\* main() entered with a command line
MainInit ==
    /\ margs \in CommandLines
    /\ hw \in 1..MaxThreads
    /\ mpc = "parse"
    /\ mexit = -1
    /\ g_running = TRUE
    /\ g_miner = FALSE
    /\ mconfig = NoConfig
    /\ hstack = << >>
    /\ delivered = << >>

\* return code;
Return(code) == mpc' = "exit" /\ mexit' = code

\* lines 160-164: ParseParameters
M_Parse ==
    /\ mpc = "parse"
    /\ IF margs.parse_ok THEN mpc' = "help" /\ mexit' = mexit ELSE Return(1)
    /\ UNCHANGED << margs, hw, g_running, g_miner, mconfig, sigVars >>
    /\ UNCHANGED << codecVars, kernelVars, extraVars, soloVars, mtVars >>

\* lines 166-169: -? or -help
M_Help ==
    /\ mpc = "help"
    /\ IF margs.help THEN Return(0) ELSE mpc' = "chain" /\ mexit' = mexit
    /\ UNCHANGED << margs, hw, g_running, g_miner, mconfig, sigVars >>
    /\ UNCHANGED << codecVars, kernelVars, extraVars, soloVars, mtVars >>

\* lines 171-186: -debug, -chain
M_Chain ==
    /\ mpc = "chain"
    /\ IF margs.chain # "spoofcoin" THEN Return(1) ELSE mpc' = "benchmark" /\ mexit' = mexit
    /\ UNCHANGED << margs, hw, g_running, g_miner, mconfig, sigVars >>
    /\ UNCHANGED << codecVars, kernelVars, extraVars, soloVars, mtVars >>

\* line 189 and RunBenchmark lines 73-82: -benchmark; the benchmark's own
\* configuration: OptimizeMiningConfig and a fixed mining address
M_Benchmark ==
    /\ mpc = "benchmark"
    /\ IF margs.benchmark
       THEN /\ mconfig' = [threads |-> hw, address |-> TRUE]
            /\ mpc' = "b_start"
       ELSE /\ mconfig' = mconfig
            /\ mpc' = "setup"
    /\ UNCHANGED << margs, hw, mexit, g_running, g_miner, sigVars >>
    /\ UNCHANGED << codecVars, kernelVars, extraVars, soloVars, mtVars >>

\* SetupMiner with the address test left out
SetupMiner_NoAddressTest(a, h) ==
    LET threads == IF a.threads.set THEN a.threads.val ELSE h
    IN  IF a.threads.set /\ threads <= 0
        THEN [ok |-> FALSE, config |-> [threads |-> threads, address |-> FALSE]]
        ELSE [ok |-> TRUE, config |-> [threads |-> threads, address |-> a.address.set]]

\* SetupMiner with the thread test left out
SetupMiner_NoThreadTest(a, h) ==
    LET threads == IF a.threads.set THEN a.threads.val ELSE h
    IN  IF ~a.address.set \/ a.address.val = ""
        THEN [ok |-> FALSE, config |-> [threads |-> threads, address |-> FALSE]]
        ELSE [ok |-> TRUE, config |-> [threads |-> threads, address |-> TRUE]]

\* SetupMiner (lines 111-151): the value returned and the config it leaves
SetupMiner(a, h) ==
    LET threads == IF a.threads.set THEN a.threads.val ELSE h
    IN  IF a.threads.set /\ threads <= 0
        THEN [ok |-> FALSE, config |-> [threads |-> threads, address |-> FALSE]]
        ELSE IF ~a.address.set \/ a.address.val = ""
        THEN [ok |-> FALSE, config |-> [threads |-> threads, address |-> FALSE]]
        ELSE [ok |-> TRUE, config |-> [threads |-> threads, address |-> TRUE]]

\* lines 194-197: if (!SetupMiner(config)) return 1;
M_Setup ==
    /\ mpc = "setup"
    /\ mconfig' = SetupMiner(margs, hw).config
    /\ IF SetupMiner(margs, hw).ok THEN mpc' = "create" /\ mexit' = mexit ELSE Return(1)
    /\ UNCHANGED << margs, hw, g_running, g_miner, sigVars >>
    /\ UNCHANGED << codecVars, kernelVars, extraVars, soloVars, mtVars >>

\* lines 200-203: g_miner = std::make_unique<AdvancedMiner>(chainparams)
M_Create ==
    /\ mpc = "create"
    /\ g_miner' = TRUE
    /\ mpc' = "start"
    /\ UNCHANGED << margs, hw, mexit, g_running, mconfig, sigVars >>
    /\ UNCHANGED << codecVars, kernelVars, extraVars, soloVars, mtVars >>

\* line 205 and RunBenchmark line 84: StartMining(config) is entered
M_StartMining ==
    /\ mpc \in {"start", "b_start"}
    /\ cret = "none"
    /\ StartMining_Check(mconfig.threads)

\* the call runs: StartMining lines 33-46
M_StartMining_Run ==
    /\ mpc \in {"start", "b_start"}
    /\ \/ StartMining_ClearStop \/ StartMining_SetMining \/ StartMining_SetTime
       \/ StartMining_Spawn

\* lines 205-212: if (!g_miner->StartMining(config)) return 1; then the mining loop,
\* which sleeps while g_running && g_miner->IsMining()
M_Started ==
    /\ mpc = "start"
    /\ cpc = "idle" /\ cret \in {"start_true", "start_false"}
    /\ IF cret = "start_false" THEN Return(1) ELSE mpc' = "loop" /\ mexit' = mexit
    /\ UNCHANGED << margs, hw, g_running, g_miner, mconfig, sigVars >>
    /\ UNCHANGED << codecVars, kernelVars, extraVars, soloVars, mtVars >>

\* RunBenchmark lines 84-90: false when StartMining failed, else the 30 seconds' sleep
B_Started ==
    /\ mpc = "b_start"
    /\ cpc = "idle" /\ cret \in {"start_true", "start_false"}
    /\ IF cret = "start_false" THEN Return(1) ELSE mpc' = "b_sleep" /\ mexit' = mexit
    /\ UNCHANGED << margs, hw, g_running, g_miner, mconfig, sigVars >>
    /\ UNCHANGED << codecVars, kernelVars, extraVars, soloVars, mtVars >>

\* RunBenchmark lines 92-93: GetStats(), and StopMining() is entered
B_StopMining ==
    /\ mpc = "b_sleep"
    /\ StopMining_Check

\* the call runs: StopMining lines 53-66
B_StopMining_Run ==
    /\ mpc = "b_sleep"
    /\ StopMining_Run

\* RunBenchmark lines 95-103 and main line 190: the results, return true, return 0
B_Done ==
    /\ mpc = "b_sleep"
    /\ cpc = "idle" /\ cret = "stop"
    /\ Return(0)
    /\ UNCHANGED << margs, hw, g_running, g_miner, mconfig, sigVars >>
    /\ UNCHANGED << codecVars, kernelVars, extraVars, soloVars, mtVars >>

\* The worker threads run from their start on. No signal is delivered, and the
\* clock is left where it stands: no test of main() before the loop reads it.
MainNext ==
    \/ M_Parse \/ M_Help \/ M_Chain \/ M_Benchmark \/ M_Setup \/ M_Create
    \/ M_StartMining \/ M_StartMining_Run \/ M_Started
    \/ B_Started \/ B_StopMining \/ B_StopMining_Run \/ B_Done
    \/ \E w \in Workers : WorkerStep(w)

\* ---- shutdown: SignalHandler (lines 28-35), the mining loop's end and main()'s tail
\* (lines 214-233), and the destruction of g_miner after main() has returned

\* signals the runs deliver
MaxSignals == 1

\* signal(SIGINT, SignalHandler); signal(SIGTERM, SignalHandler)  (lines 156-157)
Signals == {"SIGINT", "SIGTERM"}

\* main() runs its own code: no SignalHandler call is under way
InMain == hstack = << >>

\* the std::thread objects of mining_threads_ that were not joined
Joinable == {i \in 1..Len(mining_threads_) : wpc[mining_threads_[i]] # "joined"}

\* line 214: while (g_running && g_miner->IsMining()) is left; the pass that sleeps
\* a second and prints the statistics changes nothing of the state
M_LoopExit ==
    /\ mpc = "loop"
    /\ ~(g_running /\ is_mining)
    /\ mpc' = "stop"
    /\ UNCHANGED << margs, hw, mexit, g_running, g_miner, mconfig, sigVars >>
    /\ UNCHANGED << codecVars, kernelVars, extraVars, soloVars, mtVars >>

\* line 227: g_miner->StopMining() is entered
M_StopMining ==
    /\ mpc = "stop"
    /\ cret = "start_true"
    /\ StopMining_Check \/ StopMining_Idle

\* the call runs: StopMining lines 53-66
M_StopMining_Run ==
    /\ mpc = "stop"
    /\ StopMining_Run

\* lines 229-233: the final statistics, return 0
M_Stopped ==
    /\ mpc = "stop"
    /\ cpc = "idle" /\ cret = "stop"
    /\ Return(0)
    /\ UNCHANGED << margs, hw, g_running, g_miner, mconfig, sigVars >>
    /\ UNCHANGED << codecVars, kernelVars, extraVars, soloVars, mtVars >>

\* After main() has returned, g_miner is destroyed: ~AdvancedMiner (miner.cpp lines
\* 23-26) calls StopMining(), which returns at once since every return of main()
\* leaves is_mining false, and mining_threads_ is destroyed with the miner.  The
\* destructor of a std::thread that is still joinable calls std::terminate().
M_Destroy ==
    /\ mpc = "exit"
    /\ mpc' = IF g_miner /\ Joinable # {} THEN "terminate" ELSE "exited"
    /\ UNCHANGED << margs, hw, mexit, g_running, g_miner, mconfig, sigVars >>
    /\ UNCHANGED << codecVars, kernelVars, extraVars, soloVars, mtVars >>

\* A signal is delivered to the main thread, which enters SignalHandler where it
\* stands (lines 28-31): the message, g_running = false.  signal() keeps a signal
\* blocked while its own handler runs, so that the calls under way are of
\* different signals.
H_Enter ==
    /\ mpc \notin {"off", "exited", "terminate"}
    /\ Len(hstack) < Cardinality(Signals)
    /\ Len(delivered) < MaxSignals
    /\ hstack' = Append(hstack, [cpc |-> cpc, carg |-> carg, cret |-> cret])
    /\ delivered' = Append(delivered, [mining |-> is_mining,
                                       started |-> mpc \in {"loop", "stop"}])
    /\ g_running' = FALSE
    /\ cpc' = "idle"
    /\ cret' = "none"
    /\ UNCHANGED << margs, hw, mpc, mexit, g_miner, mconfig >>
    /\ UNCHANGED << sharedVars, carg, starts, workerVars, historyVars >>
    /\ UNCHANGED << codecVars, kernelVars, extraVars, soloVars >>

\* lines 32-34: if (g_miner) g_miner->StopMining(); the call is entered
H_StopMining ==
    /\ ~InMain
    /\ g_miner
    /\ cret = "none"
    /\ StopMining_Check \/ StopMining_Idle

\* the call runs: StopMining lines 53-66
H_StopMining_Run ==
    /\ ~InMain
    /\ StopMining_Run

\* line 35: SignalHandler returns, and the interrupted code goes on
H_Return ==
    /\ ~InMain
    /\ cpc = "idle"
    /\ cret = "stop" \/ ~g_miner
    /\ cpc' = hstack[Len(hstack)].cpc
    /\ carg' = hstack[Len(hstack)].carg
    /\ cret' = hstack[Len(hstack)].cret
    /\ hstack' = SubSeq(hstack, 1, Len(hstack) - 1)
    /\ UNCHANGED << margs, hw, mpc, mexit, g_running, g_miner, mconfig, delivered >>
    /\ UNCHANGED << sharedVars, starts, workerVars, historyVars >>
    /\ UNCHANGED << codecVars, kernelVars, extraVars, soloVars >>

\* The ordinary runs followed with signals: a wallet address is given, -threads
\* is not, and the thread count is the one detected.
SignalLines ==
    { a \in CommandLines :
        /\ Dispatched(a) /\ ~a.benchmark
        /\ ~a.threads.set
        /\ a.address = [set |-> TRUE, val |-> "sc1q"] }

SignalInit ==
    /\ MainInit
    /\ margs \in SignalLines

\* main()'s own steps, which wait while a SignalHandler call is under way
MainStep ==
    /\ InMain
    /\ \/ M_Parse \/ M_Help \/ M_Chain \/ M_Benchmark \/ M_Setup \/ M_Create
       \/ M_StartMining \/ M_StartMining_Run \/ M_Started
       \/ M_LoopExit \/ M_StopMining \/ M_StopMining_Run \/ M_Stopped \/ M_Destroy

\* the steps of SignalHandler
HandlerStep == H_StopMining \/ H_StopMining_Run \/ H_Return

\* a worker thread's steps in the runs where MiningLoop catches no exception
QuietStep(w) ==
    \/ W_While(w) \/ W_Template(w) \/ W_Claim(w) \/ W_CondRange(w) \/ W_CondStop(w)
    \/ W_Hash(w) \/ W_Count(w) \/ W_Submit(w) \/ W_BlocksFound(w) \/ W_UpdateStats(w)

\* main() with signals: the worker threads run from their start on
SignalNext ==
    \/ MainStep
    \/ HandlerStep
    \/ H_Enter
    \/ \E w \in Workers : QuietStep(w)

\* ------------------------------------------------ NFTSystem (nft.cpp)

\* CreateNFT calls let through
MaxNfts == 1

\* MintNFT calls let through
MaxMints == 2

\* ListNFTForSale calls let through
MaxListings == 1

\* CreateNFTAuction calls let through
MaxAuctions == 1

\* the largest token id passed
MaxTokens == 1

\* the largest amount passed (prices, payments, bids)
MaxAmount == 2

\* the nft ids passed: "NFT_n" is kept as n
NftIds == 1..MaxNfts

TokenIds == 1..MaxTokens

\* the addresses passed
Addresses == {"a", "b"}

Amounts == 0..MaxAmount

\* the royalty percentages passed
Percentages == {50}

\* NFTSystem's static members as they are initialized (lines 9-15)
NftInit ==
    /\ nft_metadata_ = {}
    /\ nft_ownership_ = [n \in NftIds |-> << >>]
    /\ royalty_info_ = [n \in NftIds |-> [set |-> FALSE, pct |-> 0, paid |-> 0]]
    /\ marketplace_listings_ = << >>
    /\ nft_auctions_ = << >>
    /\ next_nft_id_ = 1
    /\ nret = [op |-> "none", result |-> FALSE]

\* the first element of the ownership vector o with this token and owner (0: none)
RECURSIVE FindOwnership(_, _, _, _)
FindOwnership(o, token_id, owner, i) ==
    IF i > Len(o) THEN 0
    ELSE IF o[i].token_id = token_id /\ o[i].owner_address = owner THEN i
    ELSE FindOwnership(o, token_id, owner, i + 1)

\* TransferNFT (lines 67-83) on the nft's ownership vector: the value returned and
\* the vector it leaves
TransferNFT(o, token_id, from_address, to_address) ==
    LET i == FindOwnership(o, token_id, from_address, 1)
    IN  IF i = 0 THEN [ok |-> FALSE, o |-> o]
        ELSE [ok |-> TRUE, o |-> [o EXCEPT ![i].owner_address = to_address]]

\* DistributeRoyalties (lines 234-250) on the nft's royalty entry; the product with
\* the percentage is divided by 100.0 and cut to an integer
DistributeRoyalties(r, sale_amount) ==
    IF r.set THEN [r EXCEPT !.paid = @ + (sale_amount * r.pct) \div 100] ELSE r

\* CreateNFT (lines 17-44)
N_CreateNFT ==
    /\ next_nft_id_ <= MaxNfts
    /\ nft_metadata_' = nft_metadata_ \cup {next_nft_id_}
    /\ next_nft_id_' = next_nft_id_ + 1
    /\ nret' = [op |-> "CreateNFT", result |-> TRUE]
    /\ UNCHANGED << nft_ownership_, royalty_info_, marketplace_listings_, nft_auctions_ >>
    /\ UNCHANGED << soloVars, mtVars, codecVars, kernelVars, mainVars, concVars, defiVars >>

\* MintNFT (lines 46-65)
N_MintNFT(nft_id, recipient_address, token_id) ==
    /\ IF nft_id \notin nft_metadata_
       THEN /\ nret' = [op |-> "MintNFT", result |-> FALSE]
            /\ UNCHANGED nft_ownership_
       ELSE /\ Len(nft_ownership_[nft_id]) < MaxMints
            /\ nft_ownership_' = [nft_ownership_ EXCEPT ![nft_id] =
                  Append(@, [token_id |-> token_id, owner_address |-> recipient_address])]
            /\ nret' = [op |-> "MintNFT", result |-> TRUE]
    /\ UNCHANGED << nft_metadata_, royalty_info_, marketplace_listings_, nft_auctions_,
                    next_nft_id_ >>
    /\ UNCHANGED << soloVars, mtVars, codecVars, kernelVars, mainVars, concVars, defiVars >>

\* TransferNFT (lines 67-83), called from outside
N_TransferNFT(nft_id, token_id, from_address, to_address) ==
    /\ nft_ownership_' = [nft_ownership_ EXCEPT ![nft_id] =
          TransferNFT(@, token_id, from_address, to_address).o]
    /\ nret' = [op |-> "TransferNFT",
                result |-> TransferNFT(nft_ownership_[nft_id], token_id,
                                       from_address, to_address).ok]
    /\ UNCHANGED << nft_metadata_, royalty_info_, marketplace_listings_, nft_auctions_,
                    next_nft_id_ >>
    /\ UNCHANGED << soloVars, mtVars, codecVars, kernelVars, mainVars, concVars, defiVars >>

\* BurnNFT (lines 85-99): the first element with this token and owner is erased
N_BurnNFT(nft_id, token_id, owner_address) ==
    LET o == nft_ownership_[nft_id]
        i == FindOwnership(o, token_id, owner_address, 1)
    IN  /\ IF i = 0
           THEN /\ nret' = [op |-> "BurnNFT", result |-> FALSE]
                /\ UNCHANGED nft_ownership_
           ELSE /\ nft_ownership_' = [nft_ownership_ EXCEPT ![nft_id] =
                      SubSeq(o, 1, i - 1) \o SubSeq(o, i + 1, Len(o))]
                /\ nret' = [op |-> "BurnNFT", result |-> TRUE]
        /\ UNCHANGED << nft_metadata_, royalty_info_, marketplace_listings_, nft_auctions_,
                        next_nft_id_ >>
        /\ UNCHANGED << soloVars, mtVars, codecVars, kernelVars, mainVars, concVars, defiVars >>

\* SetRoyaltyInfo (lines 205-220)
N_SetRoyaltyInfo(nft_id, royalty_percentage) ==
    /\ royalty_info_' = [royalty_info_ EXCEPT ![nft_id] =
          [set |-> TRUE, pct |-> royalty_percentage, paid |-> 0]]
    /\ nret' = [op |-> "SetRoyaltyInfo", result |-> TRUE]
    /\ UNCHANGED << nft_metadata_, nft_ownership_, marketplace_listings_, nft_auctions_,
                    next_nft_id_ >>
    /\ UNCHANGED << soloVars, mtVars, codecVars, kernelVars, mainVars, concVars, defiVars >>

\* ListNFTForSale (lines 264-286): "LISTING_n" is kept as the index n
N_ListNFTForSale(nft_id, token_id, price, seller_address) ==
    /\ Len(marketplace_listings_) < MaxListings
    /\ marketplace_listings_' = Append(marketplace_listings_,
          [nft_id |-> nft_id, token_id |-> token_id, seller_address |-> seller_address,
           price |-> price, active |-> TRUE])
    /\ nret' = [op |-> "ListNFTForSale", result |-> TRUE]
    /\ UNCHANGED << nft_metadata_, nft_ownership_, royalty_info_, nft_auctions_,
                    next_nft_id_ >>
    /\ UNCHANGED << soloVars, mtVars, codecVars, kernelVars, mainVars, concVars, defiVars >>

\* PurchaseNFT (lines 288-310)
N_PurchaseNFT(listing_id, buyer_address, payment_amount) ==
    /\ IF /\ listing_id \in DOMAIN marketplace_listings_
          /\ marketplace_listings_[listing_id].active
          /\ payment_amount >= marketplace_listings_[listing_id].price
       THEN LET l == marketplace_listings_[listing_id]
            IN  /\ nft_ownership_' = [nft_ownership_ EXCEPT ![l.nft_id] =
                      TransferNFT(@, l.token_id, l.seller_address, buyer_address).o]
                /\ royalty_info_' = [royalty_info_ EXCEPT ![l.nft_id] =
                      DistributeRoyalties(@, payment_amount)]
                /\ marketplace_listings_' =
                      [marketplace_listings_ EXCEPT ![listing_id].active = FALSE]
                /\ nret' = [op |-> "PurchaseNFT", result |-> TRUE,
                            listing_id |-> listing_id, buyer_address |-> buyer_address]
       ELSE /\ nret' = [op |-> "PurchaseNFT", result |-> FALSE,
                        listing_id |-> listing_id, buyer_address |-> buyer_address]
            /\ UNCHANGED << nft_ownership_, royalty_info_, marketplace_listings_ >>
    /\ UNCHANGED << nft_metadata_, nft_auctions_, next_nft_id_ >>
    /\ UNCHANGED << soloVars, mtVars, codecVars, kernelVars, mainVars, concVars, defiVars >>

\* CreateNFTAuction (lines 312-337): "AUCTION_n" is kept as the index n
N_CreateNFTAuction(nft_id, token_id, starting_price, seller_address) ==
    /\ Len(nft_auctions_) < MaxAuctions
    /\ nft_auctions_' = Append(nft_auctions_,
          [nft_id |-> nft_id, token_id |-> token_id, seller_address |-> seller_address,
           starting_price |-> starting_price, current_highest_bid |-> starting_price,
           highest_bidder |-> "", finalized |-> FALSE, bid_history |-> << >>])
    /\ nret' = [op |-> "CreateNFTAuction", result |-> TRUE]
    /\ UNCHANGED << nft_metadata_, nft_ownership_, royalty_info_, marketplace_listings_,
                    next_nft_id_ >>
    /\ UNCHANGED << soloVars, mtVars, codecVars, kernelVars, mainVars, concVars, defiVars >>

\* PlaceBid without the test of finalized
N_PlaceBid_AfterFinal(auction_id, bid_amount, bidder_address) ==
    /\ IF /\ auction_id \in DOMAIN nft_auctions_
          /\ bid_amount > nft_auctions_[auction_id].current_highest_bid
       THEN /\ nft_auctions_' = [nft_auctions_ EXCEPT ![auction_id] =
                  [@ EXCEPT !.current_highest_bid = bid_amount,
                            !.highest_bidder = bidder_address,
                            !.bid_history = Append(@, << bidder_address, bid_amount >>)]]
            /\ nret' = [op |-> "PlaceBid", result |-> TRUE, auction_id |-> auction_id]
       ELSE /\ nret' = [op |-> "PlaceBid", result |-> FALSE, auction_id |-> auction_id]
            /\ UNCHANGED nft_auctions_
    /\ UNCHANGED << nft_metadata_, nft_ownership_, royalty_info_, marketplace_listings_,
                    next_nft_id_ >>
    /\ UNCHANGED << soloVars, mtVars, codecVars, kernelVars, mainVars, concVars, defiVars >>

\* PlaceBid (lines 339-356)
N_PlaceBid(auction_id, bid_amount, bidder_address) ==
    /\ IF /\ auction_id \in DOMAIN nft_auctions_
          /\ ~nft_auctions_[auction_id].finalized
          /\ bid_amount > nft_auctions_[auction_id].current_highest_bid
       THEN /\ nft_auctions_' = [nft_auctions_ EXCEPT ![auction_id] =
                  [@ EXCEPT !.current_highest_bid = bid_amount,
                            !.highest_bidder = bidder_address,
                            !.bid_history = Append(@, << bidder_address, bid_amount >>)]]
            /\ nret' = [op |-> "PlaceBid", result |-> TRUE, auction_id |-> auction_id]
       ELSE /\ nret' = [op |-> "PlaceBid", result |-> FALSE, auction_id |-> auction_id]
            /\ UNCHANGED nft_auctions_
    /\ UNCHANGED << nft_metadata_, nft_ownership_, royalty_info_, marketplace_listings_,
                    next_nft_id_ >>
    /\ UNCHANGED << soloVars, mtVars, codecVars, kernelVars, mainVars, concVars, defiVars >>

\* FinalizeAuction (lines 358-381)
N_FinalizeAuction(auction_id) ==
    /\ IF auction_id \in DOMAIN nft_auctions_ /\ ~nft_auctions_[auction_id].finalized
       THEN LET auction == nft_auctions_[auction_id]
            IN  /\ IF auction.highest_bidder # ""
                   THEN /\ nft_ownership_' = [nft_ownership_ EXCEPT ![auction.nft_id] =
                              TransferNFT(@, auction.token_id, auction.seller_address,
                                          auction.highest_bidder).o]
                        /\ royalty_info_' = [royalty_info_ EXCEPT ![auction.nft_id] =
                              DistributeRoyalties(@, auction.current_highest_bid)]
                   ELSE UNCHANGED << nft_ownership_, royalty_info_ >>
                /\ nft_auctions_' = [nft_auctions_ EXCEPT ![auction_id].finalized = TRUE]
                /\ nret' = [op |-> "FinalizeAuction", result |-> TRUE,
                            auction_id |-> auction_id]
       ELSE /\ nret' = [op |-> "FinalizeAuction", result |-> FALSE,
                        auction_id |-> auction_id]
            /\ UNCHANGED << nft_ownership_, royalty_info_, nft_auctions_ >>
    /\ UNCHANGED << nft_metadata_, marketplace_listings_, next_nft_id_ >>
    /\ UNCHANGED << soloVars, mtVars, codecVars, kernelVars, mainVars, concVars, defiVars >>

\* the calls made on NFTSystem, one after the other, in any order
NftNext ==
    \/ N_CreateNFT
    \/ \E n \in NftIds, a \in Addresses, t \in TokenIds : N_MintNFT(n, a, t)
    \/ \E n \in NftIds, t \in TokenIds, a, b \in Addresses : N_TransferNFT(n, t, a, b)
    \/ \E n \in NftIds, t \in TokenIds, a \in Addresses : N_BurnNFT(n, t, a)
    \/ \E n \in NftIds, p \in Percentages : N_SetRoyaltyInfo(n, p)
    \/ \E n \in NftIds, t \in TokenIds, p \in Amounts, a \in Addresses :
          N_ListNFTForSale(n, t, p, a)
    \/ \E l \in 1..MaxListings + 1, a \in Addresses, p \in Amounts : N_PurchaseNFT(l, a, p)
    \/ \E n \in NftIds, t \in TokenIds, p \in Amounts, a \in Addresses :
          N_CreateNFTAuction(n, t, p, a)
    \/ \E u \in 1..MaxAuctions + 1, p \in Amounts, a \in Addresses : N_PlaceBid(u, p, a)
    \/ \E u \in 1..MaxAuctions + 1 : N_FinalizeAuction(u)

\* ------------------------------------------------ DeFiProtocol (defi.cpp)

\* CreateLiquidityPool calls let through
MaxPools == 1

\* ExecuteSwap calls let through
MaxSwaps == 2

\* the largest amount passed to CreateLiquidityPool and ExecuteSwap
MaxSwapAmount == 2

\* the pool ids passed: "POOL_n" is kept as n
PoolIds == 1..MaxPools + 1

\* the asset types passed; NATIVE_SPOOFCOIN is the enumerator of value 0
Assets == {"NATIVE_SPOOFCOIN", "WRAPPED_BITCOIN", "STABLECOIN_USD"}

\* the amounts passed: positive, so that no sum of a reserve and an input is zero
SwapAmounts == 1..MaxSwapAmount

\* the min_output values passed
MinOutputs == {-1, 0, 1}

\* no entry under this key
NoPool == [exists |-> FALSE, asset_a |-> "NATIVE_SPOOFCOIN", asset_b |-> "NATIVE_SPOOFCOIN",
           reserve_a |-> 0, reserve_b |-> 0, total_lp_tokens |-> 0]

\* the entry liquidity_pools_[pool_id] inserts for a new key: a value-initialized
\* LiquidityPool, every member zero
DefaultPool == [NoPool EXCEPT !.exists = TRUE]

\* liquidity_pools_.size()
PoolCount == Cardinality({p \in PoolIds : liquidity_pools_[p].exists})

\* DeFiProtocol's static members as they are initialized (lines 9-13)
DefiInit ==
    /\ liquidity_pools_ = [p \in PoolIds |-> NoPool]
    /\ swaps = 0
    /\ dret = [op |-> "none", result |-> FALSE]

\* CalculateSwapPrice (lines 61-79); the quotient of two non-negative numbers
CalculateSwapPrice(pools, pool_id, input_asset, input_amount, output_asset) ==
    IF ~pools[pool_id].exists THEN 0
    ELSE LET pool == pools[pool_id]
         IN  IF input_asset = pool.asset_a /\ output_asset = pool.asset_b
             THEN (input_amount * pool.reserve_b) \div (pool.reserve_a + input_amount)
             ELSE IF input_asset = pool.asset_b /\ output_asset = pool.asset_a
             THEN (input_amount * pool.reserve_a) \div (pool.reserve_b + input_amount)
             ELSE 0

\* CreateLiquidityPool (lines 39-59): the entry under "POOL_" + size() + 1 is assigned
D_CreateLiquidityPool(asset_a, asset_b, amount_a, amount_b) ==
    /\ PoolCount < MaxPools
    /\ liquidity_pools_' = [liquidity_pools_ EXCEPT ![PoolCount + 1] =
          [exists |-> TRUE, asset_a |-> asset_a, asset_b |-> asset_b,
           reserve_a |-> amount_a, reserve_b |-> amount_b,
           total_lp_tokens |-> amount_a + amount_b]]
    /\ dret' = [op |-> "CreateLiquidityPool", result |-> TRUE]
    /\ UNCHANGED swaps
    /\ UNCHANGED << soloVars, mtVars, codecVars, kernelVars, mainVars, concVars, nftVars >>

\* ExecuteSwap (lines 81-105).  dret keeps the call and the pools it was made on.
D_ExecuteSwap(pool_id, input_asset, input_amount, output_asset, min_output) ==
    LET output_amount == CalculateSwapPrice(liquidity_pools_, pool_id, input_asset,
                                            input_amount, output_asset)
        pool == IF liquidity_pools_[pool_id].exists THEN liquidity_pools_[pool_id]
                ELSE DefaultPool
        made == [op |-> "ExecuteSwap", pool_id |-> pool_id, input_asset |-> input_asset,
                 output_asset |-> output_asset, min_output |-> min_output,
                 before |-> liquidity_pools_]
    IN  /\ swaps < MaxSwaps
        /\ swaps' = swaps + 1
        /\ IF output_amount < min_output
           THEN /\ dret' = [result |-> FALSE] @@ made
                /\ UNCHANGED liquidity_pools_
           ELSE /\ liquidity_pools_' = [liquidity_pools_ EXCEPT ![pool_id] =
                      IF input_asset = pool.asset_a
                      THEN [pool EXCEPT !.reserve_a = @ + input_amount,
                                        !.reserve_b = @ - output_amount]
                      ELSE [pool EXCEPT !.reserve_b = @ + input_amount,
                                        !.reserve_a = @ - output_amount]]
                /\ dret' = [result |-> TRUE] @@ made
        /\ UNCHANGED << soloVars, mtVars, codecVars, kernelVars, mainVars, concVars, nftVars >>

\* the calls made on DeFiProtocol, one after the other
DefiNext ==
    \/ \E a, b \in Assets, x, y \in SwapAmounts : D_CreateLiquidityPool(a, b, x, y)
    \/ \E p \in PoolIds, a, b \in Assets, x \in SwapAmounts, m \in MinOutputs :
          D_ExecuteSwap(p, a, x, b, m)

\* ------------------------------------------------------- specifications

vars == << soloVars, mtVars, toolVars >>

\* a caller's position, locals and result when it has made no call
NoCall == [cpc |-> "idle", carg |-> [threads |-> 0, i |-> 0], cret |-> "none"]

\* no second calling thread
ConcIdle == other = NoCall

\* the standalone miner before main() runs (the multi-threaded miner's runs leave it there)
SoloIdle ==
    /\ startNonce = U32Zero
    /\ genesis = GenesisHeader(U32Zero)
    /\ target = uint256_Zero
    /\ hashes = U64FromU32(U32Zero)
    /\ hash = uint256_Zero
    /\ spc = "off"
    /\ out = << >>
    /\ exitCode = -1
    /\ sha = << >>
    /\ visited = << >>

SoloNext == ComputeHash \/ Report \/ TestSuccess \/ IncrementNonce \/ ReturnMain

\* the standalone miner; the AdvancedMiner object is constructed and never started
SoloSpecInit == SoloInit /\ MTInit /\ CodecIdle /\ KernelIdle /\ MainIdle /\ ConcIdle /\ NftInit /\ DefiInit

SoloSpec == SoloSpecInit /\ [][SoloNext]_vars

\* main() is one thread that is never blocked: it keeps running
SoloFairSpec == SoloSpec /\ WF_vars(SoloNext)

MTNext == MTStep

\* the multi-threaded miner, driven by one thread that calls StartMining and StopMining
MTSpecInit == SoloIdle /\ MTInit /\ CodecIdle /\ KernelIdle /\ MainIdle /\ ConcIdle /\ NftInit /\ DefiInit

MTSpec == MTSpecInit /\ [][MTNext]_vars

\* The clock is left where it stands: no test of the caller or of a worker reads
\* start_time, hash_rate or the time.
MTFairNext == CallerStep \/ \E w \in Workers : WorkerStep(w)

\* every started worker thread and a StopMining call that is under way keep running;
\* nothing obliges the caller to call StartMining or StopMining
MTFairSpec ==
    /\ MTSpecInit /\ [][MTFairNext]_vars
    /\ WF_vars(StopMining_Run) /\ \A w \in Workers : WF_vars(WorkerStep(w))

\* the header codec, one call per run
CodecSpecInit == CodecInit /\ SoloIdle /\ MTInit /\ KernelIdle /\ MainIdle /\ ConcIdle /\ NftInit /\ DefiInit

CodecSpec == CodecSpecInit /\ [][CodecNext]_vars

\* the kernel genesis miner, one call of MineCustomCoinGenesisBlock per run
KernelSpecInit == KernelInit /\ SoloIdle /\ MTInit /\ CodecIdle /\ MainIdle /\ ConcIdle /\ NftInit /\ DefiInit

KernelSpec == KernelSpecInit /\ [][KernelNext]_vars

\* spoofcoin-miner run on one command line
MainSpecInit == MainInit /\ SoloIdle /\ MTInit /\ CodecIdle /\ KernelIdle /\ ConcIdle /\ NftInit /\ DefiInit

MainSpec == MainSpecInit /\ [][MainNext]_vars

\* ------------------------------------- standalone miner: the claims

\* The 256-bit value of a uint256 as sixteen base-65536 digits, most significant
\* first; for digit strings of one length the numeric order is the lexicographic one.
Digits256(u) == [k \in 1..16 |-> IF k % 2 = 1 THEN u[8 - (k - 1) \div 2].hi
                                 ELSE u[8 - (k - 1) \div 2].lo]

NumLess(a, b) ==
    \E k \in 1..16 : /\ Digits256(a)[k] < Digits256(b)[k]
                     /\ \A j \in 1..(k - 1) : Digits256(a)[j] = Digits256(b)[j]

NumLeq(a, b) == a = b \/ NumLess(a, b)

\* the search order: nonce 0, 1, 2, .. at one time, then nonce 0, 1, .. at the next
SearchOrderNext(c) ==
    IF c[2] = U32Max THEN << U32FromNat((c[1].hi * 65536 + c[1].lo) + 1), U32Zero >>
    ELSE << c[1], IF c[2].lo = 65535 THEN U32(c[2].hi + 1, 0) ELSE U32(c[2].hi, c[2].lo + 1) >>

\* the digest of the header with time c[1] and nonce c[2]
DigestOf(c) == Hash(Serialize([GenesisHeader(c[2]) EXCEPT !.nTime = c[1]]))

SoloDone == spc \in {"return", "exit"}

\* C1: the loop is left only on success: whenever main() is past the loop, the
\* digest it reported is the double hash of the header as it stands, whose nonce is
\* the reported one and whose time is the initial time plus one for each overflow
\* line printed, and that digest is <= target as 256-bit numbers.
C1_ExitOnlySuccess ==
    SoloDone =>
        /\ hash = Hash(Serialize(genesis))
        /\ NumLeq(hash, target)
        /\ Len(out) > 0
        /\ out[Len(out)] = [kind |-> "found", nonce |-> genesis.nNonce,
                            hash |-> GetHex(hash), hashes |-> hashes]
        /\ genesis.nTime =
              U32FromNat(GenesisTime
                         + Cardinality({i \in 1..Len(out) : out[i].kind = "overflow"}))

C1_Witness == spc = "exit" /\ genesis.nTime = U32FromNat(GenesisTime + 1) /\ Len(out) = 2

\* C2: the reported (time, nonce) is the first satisfying candidate in search
\* order: the headers hashed are consecutive in that order from the first one, the
\* last one hashed is the reported one, and every earlier one had digest > target.
C2_FirstSatisfying ==
    /\ Len(visited) > 0 => visited[1] = << U32FromNat(GenesisTime), startNonce >>
    /\ \A i \in 1..(Len(visited) - 1) : visited[i + 1] = SearchOrderNext(visited[i])
    /\ SoloDone =>
          /\ visited[Len(visited)] = << genesis.nTime, genesis.nNonce >>
          /\ NumLeq(DigestOf(visited[Len(visited)]), target)
          /\ \A i \in 1..(Len(visited) - 1) : ~NumLeq(DigestOf(visited[i]), target)

C2_Witness == spc = "exit" /\ Len(visited) >= 3

\* C3: a nonce increment from 0xFFFFFFFF gives nonce 0 and time + 1, any other
\* increment leaves the time alone, and neither changes another field; from nonce
\* 0xFFFFFFFE two failed attempts lead to nonce 0 at time + 1.
C3_IncrementStep ==
    spc = "inc" =>
        /\ genesis.nNonce = U32Max =>
              /\ genesis'.nNonce = U32Zero
              /\ genesis'.nTime = SearchOrderNext(<< genesis.nTime, genesis.nNonce >>)[1]
              /\ genesis'.nTime # genesis.nTime
        /\ genesis.nNonce # U32Max =>
              /\ genesis'.nNonce = SearchOrderNext(<< genesis.nTime, genesis.nNonce >>)[2]
              /\ genesis'.nTime = genesis.nTime
        /\ genesis'.nVersion = genesis.nVersion
        /\ genesis'.hashPrevBlock = genesis.hashPrevBlock
        /\ genesis'.hashMerkleRoot = genesis.hashMerkleRoot
        /\ genesis'.nBits = genesis.nBits

C3_TwoFromFFFFFFFE ==
    (startNonce = U32(65535, 65534) /\ Len(visited) = 2 /\ spc = "hash") =>
        genesis = [GenesisHeader(U32Zero) EXCEPT !.nTime = U32FromNat(GenesisTime + 1)]

C3_NonceOverflow == [][C3_IncrementStep]_vars /\ []C3_TwoFromFFFFFFFE

C3_Witness ==
    /\ startNonce = U32(65535, 65534) /\ Len(visited) = 2 /\ spc = "hash"
    /\ genesis.nNonce = U32Zero

\* C4: at the success test the hash counter equals the number of digests computed
\* so far, and a search that succeeds before any nonce overflow reports a hash
\* count of nonce + 1.
C4_HashCount ==
    /\ spc = "test" =>
          LET RECURSIVE Plus(_, _)
              Plus(x, k) == IF k = 0 THEN x ELSE Plus(U64Inc(x), k - 1)
          IN  hashes = Plus(U64FromU32(startNonce), Len(visited))
    /\ (SoloDone /\ genesis.nTime = U32FromNat(GenesisTime)) =>
          /\ hashes = IF genesis.nNonce = U32Max THEN U64(U32(0, 1), U32Zero)
                      ELSE U64(U32Zero, SearchOrderNext(<< genesis.nTime, genesis.nNonce >>)[2])
          /\ out[Len(out)].hashes = hashes

C4_Witness ==
    /\ spc = "exit" /\ startNonce = U32Zero /\ genesis.nNonce = U32(0, 2)
    /\ genesis.nTime = U32FromNat(GenesisTime)

\* C5: if some header of the search order has digest <= target, the loop ends and
\* main() returns 0.
Satisfiable == \E d \in DOMAIN sha : NumLeq(Hash(d), target)

C5_Terminates == Satisfiable ~> (spc = "exit" /\ exitCode = 0)

C5_Witness == spc = "exit" /\ exitCode = 0 /\ Len(visited) = 3

\* ------------------------------------- multi-threaded miner: the claims

\* a worker thread that is inside MiningLoop
Running(w) == wpc[w] \notin {"none", "done", "joined"}

\* SubmitBlock calls made so far by the workers in W
RECURSIVE SubmitCalls(_)
SubmitCalls(W) ==
    IF W = {} THEN 0
    ELSE LET w == CHOOSE x \in W : TRUE
         IN  Len(submitted[w]) + SubmitCalls(W \ {w})

\* C6: the nonces hashed by different workers are pairwise disjoint: no nonce value
\* is tested by two workers.
C6_DisjointRanges ==
    \A w1, w2 \in Workers : w1 # w2 => tested[w1] \cap tested[w2] = {}

\* C7: one winning block is submitted: after one worker has found a satisfying
\* nonce, no second SubmitBlock call occurs.
C7_SingleSubmit == SubmitCalls(Workers) <= 1

\* C8: once StopMining has set the stop flag, each worker hashes at most one
\* nonce-range batch more, every worker leaves MiningLoop, and StopMining's join
\* over the worker threads completes.
C8_WithinBatch == \A w \in Workers : afterStop[w] <= RangeSize

C8_Joined ==
    /\ cpc = "idle"
    /\ mining_threads_ = << >>
    /\ \A w \in Workers : ~Running(w)

C8_StopCompletes == []C8_WithinBatch /\ ((cpc = "stop_mining") ~> C8_Joined)

C8_Witness ==
    /\ stop_mining_ /\ C8_Joined
    /\ \E w \in Workers : wpc[w] = "joined" /\ afterStop[w] = 1
    /\ \E w \in Workers : wpc[w] = "joined" /\ afterStop[w] = 0 /\ tested[w] # {}

\* C9: an exception inside one worker's attempt takes that worker to its catch
\* clause and changes nothing else: no other worker moves, is_mining, the stop flag
\* and the thread list stay as they are; from the catch clause the worker goes back
\* to the test of its loop and nowhere else.
C9_FaultStep ==
    \A w \in Workers :
        /\ (wpc[w] \in FaultPoints /\ wpc'[w] = "catch") =>
              /\ \A v \in Workers \ {w} :
                    /\ wpc'[v] = wpc[v] /\ block'[v] = block[v]
                    /\ nonce'[v] = nonce[v] /\ nonce_out'[v] = nonce_out[v]
              /\ UNCHANGED << sharedVars, callerVars >>
        /\ (wpc[w] = "catch" /\ wpc'[w] # "catch") => wpc'[w] = "while"
        /\ (Running(w) /\ ~Running(w)') => (wpc[w] = "while" /\ stop_mining_)

C9_FaultIsolation == [][C9_FaultStep]_vars

C9_Witness ==
    \E w, v \in Workers :
        /\ w # v /\ is_mining
        /\ wpc[w] = "catch" /\ Len(found[w]) > Len(submitted[w]) - 1 /\ tested[w] # {}
        /\ wpc[v] = "cond_stop"

\* C10: each satisfying nonce MineBlock returns is passed to SubmitBlock once, in
\* the block that carries it, and whatever SubmitBlock returns the worker goes on
\* with its loop.
C10_SubmittedAreFound ==
    \A w \in Workers :
        IF wpc[w] = "submit"
        THEN /\ found[w] = Append(submitted[w], nonce_out[w])
             /\ block[w].live
        ELSE found[w] = submitted[w]

C10_SubmitStep ==
    \A w \in Workers :
        (wpc[w] = "submit" /\ wpc'[w] # "submit") =>
            /\ wpc'[w] \in {"found", "stats", "catch"}
            /\ wpc'[w] # "catch" => /\ block'[w].nNonce = nonce_out[w]
                                    /\ submitted'[w] = Append(submitted[w], block'[w].nNonce)

C10_SubmitOnce == []C10_SubmittedAreFound /\ [][C10_SubmitStep]_vars

C10_Witness ==
    \E w \in Workers :
        /\ Len(submitted[w]) = 2 /\ submitted[w][1] # submitted[w][2]
        /\ wpc[w] = "while"

\* ------------------------------------------------- header codec: the claims

\* bytes d[at+1 .. at+4] are the integer x, least significant byte first
IsLE4(d, at, x) ==
    /\ \A i \in 1..4 : d[at + i] \in 0..255
    /\ d[at + 1] + 256 * d[at + 2] = x.lo
    /\ d[at + 3] + 256 * d[at + 4] = x.hi

\* bytes d[at+1 .. at+32] are the 64-character display disp, its byte pairs reversed
IsReversedDisplay(d, at, disp) ==
    /\ Len(disp) = 64
    /\ \A k \in 1..32 :
          /\ d[at + k] \in 0..255
          /\ HexChar(d[at + k] \div 16) = disp[65 - 2 * k]
          /\ HexChar(d[at + k] % 16) = disp[66 - 2 * k]

\* C13: Serialize gives exactly 80 bytes, version(4) || prev-hash(32) ||
\* merkle-root(32) || time(4) || bits(4) || nonce(4); the four integers are least
\* significant byte first, and each hash field is the byte-reversal of the
\* field's 64-character hex display.
C13_Layout ==
    (call.op = "Serialize" /\ result.done) =>
        /\ Len(result.h) = 80
        /\ IsLE4(result.h, 0, call.h.nVersion)
        /\ IsReversedDisplay(result.h, 4, GetHex(call.h.hashPrevBlock))
        /\ IsReversedDisplay(result.h, 36, GetHex(call.h.hashMerkleRoot))
        /\ IsLE4(result.h, 68, call.h.nTime)
        /\ IsLE4(result.h, 72, call.h.nBits)
        /\ IsLE4(result.h, 76, call.h.nNonce)

\* a header whose version bytes all differ and whose merkle root is no palindrome
C13_Witness ==
    /\ call.op = "Serialize" /\ result.done
    /\ call.h.nVersion = U32(258, 772)
    /\ call.h.hashMerkleRoot = SetHex(MerkleRootHex)
    /\ call.h.nNonce = U32(0, 256)
    /\ SubSeq(result.h, 1, 4) = << 4, 3, 2, 1 >>
    /\ result.h[37] = 59

\* the header read back from 80 bytes laid out as version(4) || prev-hash(32) ||
\* merkle-root(32) || time(4) || bits(4) || nonce(4), least significant byte first
ReadLE4(d, at) == U32(d[at + 3] + 256 * d[at + 4], d[at + 1] + 256 * d[at + 2])

ReadLE32(d, at) == [x \in 1..8 |-> ReadLE4(d, at + 4 * (x - 1))]

Deserialize(d) ==
    [ nVersion |-> ReadLE4(d, 0), hashPrevBlock |-> ReadLE32(d, 4),
      hashMerkleRoot |-> ReadLE32(d, 36), nTime |-> ReadLE4(d, 68),
      nBits |-> ReadLE4(d, 72), nNonce |-> ReadLE4(d, 76) ]

\* C14: Serialize loses nothing: reading the six fields back from the 80 bytes
\* gives the header serialized, and two headers that differ in a field
\* serialize to different bytes.
C14_RoundTrip ==
    (call.op = "Serialize" /\ result.done) =>
        /\ Deserialize(result.h) = call.h
        /\ Deserialize(result.g) = call.g
        /\ (call.h # call.g => result.h # result.g)

\* two headers that differ in the top byte of the nonce only
C14_Witness ==
    /\ call.op = "Serialize" /\ result.done
    /\ call.h.nNonce = U32Zero /\ call.g.nNonce = U32(0, 256)
    /\ call.h.hashMerkleRoot = SetHex(MixedHex)
    /\ result.h # result.g
    /\ SubSeq(result.h, 1, 76) = SubSeq(result.g, 1, 76)

\* C16: operator< is the strict order of the values as 256-bit unsigned integers
\* (word 7 most significant, words compared unsigned); a <= b iff a < b or a == b;
\* for A < B < C, A <= C holds and C <= A does not; exactly one of a < b, a == b,
\* b < a holds for any pair.
C16_NumericOrder ==
    (call.op = "Compare" /\ result.done) =>
        LET v == << call.a, call.b, call.c >>
            lt == result.lt
            le == result.le
            eq == result.eq
        IN  /\ \A i, j \in 1..3 :
                  /\ lt[i][j] = NumLess(v[i], v[j])
                  /\ eq[i][j] = (v[i] = v[j])
                  /\ le[i][j] = (lt[i][j] \/ eq[i][j])
                  /\ Cardinality({ x \in {"lt", "eq", "gt"} :
                                     \/ x = "lt" /\ lt[i][j]
                                     \/ x = "eq" /\ eq[i][j]
                                     \/ x = "gt" /\ lt[j][i] }) = 1
            /\ (lt[1][2] /\ lt[2][3]) => (le[1][3] /\ ~le[3][1])

\* A < B < C with the top bit set in the low word of A and in the high word of C
C16_Witness ==
    /\ call.op = "Compare" /\ result.done
    /\ call.a = WordAt(0, U32(32768, 0))
    /\ call.b = WordAt(7, U32FromNat(1))
    /\ call.c = WordAt(7, U32(32768, 0))
    /\ result.lt[1][2] /\ result.lt[2][3]
    /\ result.le[1][3] /\ ~result.le[3][1]

\* the values SetHex gives the sample strings of at most 64 characters
ValidHexValues == { SetHex(h) : h \in { x \in CodecHexStrings : Len(x) <= 64 } }

\* C19: SetHex on a hex string longer than 64 characters gives an error outcome
\* distinguishable from every valid value, not a 256-bit value that serializes
\* as a normal 32-byte field.
C19_OverlongRejected ==
    (call.op = "SetHex" /\ result.done /\ Len(call.hex) > 64) =>
        /\ result.value \notin ValidHexValues
        /\ Len(HashBytes(result.value)) # 32

\* ------------------------------- standalone miner: digest and target claims

\* C15: the 32 digest bytes of the second hash round are compared against the
\* target as a little-endian 256-bit integer: digest byte 31 is the most
\* significant byte of the compared value and digest byte 0 the least significant.
C15_DigestLittleEndian ==
    (spc \in {"report", "test"}) => hash = ReadLE32(sha[Serialize(genesis)], 0)

\* the compact decoding of a bits field: E = bits >> 24, M = low 24 bits,
\* M >> 8*(3-E) if E <= 3, else M << 8*(E-3)
CompactDecoding(bits) ==
    LET E == bits.hi \div 256
        M == << bits.lo % 256, bits.lo \div 256, bits.hi % 256 >>
        byte(k) == IF k - (E - 3) \in 0..2 THEN M[k - (E - 3) + 1] ELSE 0
    IN  ReadLE32([k \in 1..32 |-> byte(k - 1)], 0)

\* C17: the threshold the standalone miner compares against is the compact
\* decoding of the header's bits field, unclamped; for bits = 0x1d00ffff it is
\* 00000000ffff followed by 52 zero hex digits.
C17_TargetIsDecodedBits ==
    /\ target = CompactDecoding(genesis.nBits)
    /\ genesis.nBits = U32(7424, 65535) =>
          GetHex(target) = Rep("0", 8) \o Rep("f", 4) \o Rep("0", 52)

\* a digest equal to the threshold has been accepted
C17_Witness ==
    /\ spc = "return"
    /\ genesis.nBits = U32(7424, 65535)
    /\ hash = CompactDecoding(genesis.nBits)
    /\ out[Len(out)].kind = "found"

\* ------------------------------------------ kernel genesis miner: the claims

\* C11: when the nonce wraps from 0xFFFFFFFF to 0 without a hit, the block's time
\* is incremented by 1 before the search continues: the header hashed after
\* (time, 0xFFFFFFFF) is (time + 1, 0), not one of the first pass.
C11_WrapAdvancesTime ==
    \A i \in 1..(Len(kvisited) - 1) :
        kvisited[i][2] = U32Max =>
            kvisited[i + 1] = << U32Inc(kvisited[i][1]), U32Zero >>

\* DecodeCompact of section 3, the sign flag masked off: E = bits >> 24,
\* M = the mantissa, M >> 8*(3-E) if E <= 3, else M << 8*(E-3)
DecodeCompact(bits) ==
    CompactDecoding(U32(bits.hi - (IF bits.hi % 256 >= 128 THEN 128 ELSE 0), bits.lo))

\* min(DecodeCompact(nBits), powLimit) under unsigned 256-bit ordering
ClampToLimit(t, limit) == IF NumLess(limit, t) THEN limit ELSE t

C12_Threshold == ClampToLimit(DecodeCompact(kgenesis.nBits), ReadLE32(powLimit, 0))

\* C12: the threshold the kernel miner uses is min(DecodeCompact(genesis.nBits),
\* powLimit) under unsigned 256-bit ordering; on return genesis.nNonce is the
\* returned nonce and the block hash with that nonce is <= that threshold.
C12_ClampedTarget ==
    /\ kpc \in {"hash", "test", "inc", "returned"} => hashTarget = C12_Threshold
    /\ kpc = "returned" =>
          /\ kgenesis.nNonce = kret
          /\ NumLeq(ReadLE32(GetHash[<< kgenesis.nTime, kret >>], 0), C12_Threshold)

\* a return at nonce 1 under a target that was clamped to powLimit, the block
\* passed in holding another nonce
C12_Witness ==
    /\ kpc = "returned"
    /\ kgenesis.nBits = U32(8448, 65535)
    /\ hashTarget = ReadLE32(powLimit, 0)
    /\ hashTarget # DecodeCompact(kgenesis.nBits)
    /\ kret = U32FromNat(1)
    /\ kgenesis.nNonce = kret
    /\ khash = Blob(30 :> 255 @@ 31 :> 255 @@ 32 :> 127)

\* the exponent shifts the whole mantissa out of 256 bits: 8*(E-3) >= 256
ShiftedOut(bits) == 8 * ((bits.hi \div 256) - 3) >= 256

\* C18: for bits whose exponent shifts the whole mantissa out of the 256-bit
\* range, the target the kernel miner uses is zero, and no digest other than
\* zero is accepted.
C18_OverflowIsZero ==
    ShiftedOut(kgenesis.nBits) =>
        /\ kpc \in {"hash", "test", "inc", "returned"} => hashTarget = uint256_Zero
        /\ kpc = "returned" => GetHash[<< kgenesis.nTime, kret >>] = Blob(<< >>)

\* under bits 0x2300ffff the digest 1 was rejected and the digest 0 accepted
C18_Witness ==
    /\ kpc = "returned"
    /\ kgenesis.nBits = U32(8960, 65535)
    /\ Len(kvisited) = 2
    /\ GetHash[kvisited[1]] = Blob(<< 1 >>)
    /\ khash = Blob(<< >>)

\* ------------------------------------------------ spoofcoin-miner: the claims

\* the command line lacks a non-empty -address, or gives -threads a value <= 0
ConfigurationError(a) ==
    \/ ~a.address.set \/ a.address.val = ""
    \/ a.threads.set /\ a.threads.val <= 0

\* StartMining has not been called and no worker thread was started
NothingStarted ==
    /\ starts = 0 /\ cpc = "idle" /\ cret = "none"
    /\ mining_threads_ = << >>
    /\ \A w \in Workers : wpc[w] = "none"

RECURSIVE NoReportSearch(_, _, _)
NoReportSearch(h, n, k) ==
    IF k = 0 THEN [done |-> FALSE]
    ELSE IF uint256_LessEq(Hash(Serialize(h)), target)
         THEN [done |-> TRUE, nonce |-> h.nNonce, time |-> h.nTime,
               hash |-> Hash(Serialize(h)), hashes |-> CountHash(n)]
         ELSE NoReportSearch(NextCandidate(h), CountHash(n), k - 1)

C22_ReportStep ==
    spc = "report" => UNCHANGED << genesis, target, hashes, hash, sha >>

C22_SameResult ==
    SoloDone =>
        LET r == NoReportSearch(GenesisHeader(startNonce), U64FromU32(startNonce),
                                MaxAttempts)
        IN  /\ r.done
            /\ genesis.nNonce = r.nonce /\ genesis.nTime = r.time
            /\ hash = r.hash /\ hashes = r.hashes
            /\ out[Len(out)] = [kind |-> "found", nonce |-> r.nonce,
                                hash |-> GetHex(r.hash), hashes |-> r.hashes]

\* C22: the progress report every 100000 attempts changes no search state (nonce,
\* time, hash counter, header fields, target), and the reported nonce, time,
\* digest and hash count are those of the same search with the report removed.
C22_ReportObservesOnly == [][C22_ReportStep]_vars /\ []C22_SameResult

\* a progress line was printed, and the search went on to its result
C22_Witness ==
    /\ SoloDone
    /\ Len(out) >= 2
    /\ out[1].kind = "progress"
    /\ out[Len(out)].kind = "found"
    /\ Len(visited) = 3

\* C23, the header fields and the target in a state
C23_Fixed ==
    /\ genesis.nVersion = U32FromNat(1)
    /\ genesis.hashPrevBlock = SetHex(PrevBlockHex)
    /\ genesis.hashMerkleRoot = SetHex(MerkleRootHex)
    /\ genesis.nBits = U32FromNat(GenesisBits)
    /\ target = SetHex(TargetHex)

\* C23, one step: the header changes in its nonce only, or, when the nonce was
\* 0xFFFFFFFF, in its nonce and its time only
C23_Step ==
    genesis' # genesis =>
        /\ \A f \in DOMAIN genesis \ {"nNonce", "nTime"} : genesis'[f] = genesis[f]
        /\ target' = target
        /\ genesis.nNonce # U32Max => genesis'.nTime = genesis.nTime
        /\ genesis'.nNonce # genesis.nNonce \/ genesis'.nTime # genesis.nTime

\* C23: in every reachable state of the search, version, prevBlockHash,
\* merkleRoot, bits and the target equal their initial values; only the nonce
\* changes on an ordinary step and only nonce and time change on an overflow step.
C23_FrameCondition == []C23_Fixed /\ [][C23_Step]_vars

\* the search past an overflow step, about to hash the header (time + 1, 0)
C23_Witness ==
    /\ spc = "hash"
    /\ genesis.nNonce = U32Zero
    /\ genesis.nTime = U32FromNat(GenesisTime + 1)
    /\ Len(visited) = 2

\* the nonces 0 .. n-1 (n read as a number below 2^32) that lie in the oracle's
\* domain had a block hash above the threshold
EarlierNoncesFail(n) ==
    \A p \in DOMAIN GetHash :
        (p[1] = kgenesis.nTime /\ U32Less(p[2], n)) =>
            ~NumLeq(ReadLE32(GetHash[p], 0), C12_Threshold)

\* C30: the nonce returned is the smallest nonce in 0..0xFFFFFFFF whose block
\* hash is <= the clamped target; the search starts at nonce 0 whatever nonce the
\* block passed in holds, and tests the nonces in increasing order, skipping none.
C30_SmallestNonce ==
    /\ (kstart = U32Zero /\ kpc = "hash" /\ Len(kvisited) = 0) => nNonce = U32Zero
    /\ (kstart = U32Zero /\ Len(kvisited) > 0) => kvisited[1][2] = U32Zero
    /\ \A i \in 1..(Len(kvisited) - 1) :
          kvisited[i][2] # U32Max =>
              kvisited[i + 1] = << kvisited[i][1], U32Add(kvisited[i][2], 1) >>
    /\ kpc = "returned" =>
          /\ NumLeq(ReadLE32(GetHash[<< kgenesis.nTime, kret >>], 0), C12_Threshold)
          /\ EarlierNoncesFail(kret)

\* a search from its entry: nonces 0 and 1 failed and nonce 2 is returned
C30_Witness ==
    /\ kpc = "returned"
    /\ kstart = U32Zero
    /\ kret = U32FromNat(2)
    /\ kvisited = << << kgenesis.nTime, U32Zero >>, << kgenesis.nTime, U32FromNat(1) >>,
                     << kgenesis.nTime, U32FromNat(2) >> >>
    /\ kgenesis.nBits = U32FromNat(GenesisBits)

\* ------------------------------ multi-threaded miner: counters and ranges

\* SubmitBlock calls that have returned true, over the workers in W
RECURSIVE AcceptedBy(_)
AcceptedBy(W) ==
    IF W = {} THEN 0
    ELSE LET w == CHOOSE x \in W : TRUE
         IN  accepted[w] + AcceptedBy(W \ {w})

\* workers between SubmitBlock's return and the increment that follows it
Incrementing == { w \in Workers : wpc[w] = "found" }

\* blocks_found counts every SubmitBlock call that returned true, each once, as
\* soon as the worker that made the call has executed its next statement
C24_CountsAccepted ==
    /\ blocks_found + Cardinality(Incrementing) = AcceptedBy(Workers)
    /\ Incrementing = {} => blocks_found = AcceptedBy(Workers)

C24_Step == blocks_found' >= blocks_found

\* C24: under every interleaving of workers, blocks_found never decreases and
\* equals the number of SubmitBlock calls that have returned true: no increment
\* is lost or duplicated.
C24_SuccessCounter == []C24_CountsAccepted /\ [][C24_Step]_vars

\* both workers have had a block accepted and have counted it
C24_Witness ==
    /\ blocks_found = 2
    /\ \A w \in Workers : accepted[w] = 1
    /\ Incrementing = {}

\* C25: the start values fetch_add returns to the MineBlock calls are pairwise
\* distinct and exactly one range apart in claim order, from 0 on: two workers
\* never obtain the same start.
C25_DistinctStarts ==
    /\ \A i \in 1..Len(claimed) : claimed[i].start = U32FromNat((i - 1) * RangeSize)
    /\ \A i, j \in 1..Len(claimed) : i # j => claimed[i].start # claimed[j].start

\* the two workers have claimed alternately
C25_Witness ==
    /\ Len(claimed) = 2
    /\ claimed[1].worker # claimed[2].worker
    /\ claimed[2].start = U32FromNat(RangeSize)
    /\ current_nonce_ = U32FromNat(2 * RangeSize)

\* the worker whose step this is: the one whose position or loop variable changes
Stepped(w) == wpc'[w] # wpc[w] \/ nonce'[w] # nonce[w]

\* C26, one step: a block template changes only in a step of the worker that
\* holds it, and the nonce written into it is that worker's own
C26_Step ==
    \A w \in Workers :
        block'[w] # block[w] =>
            /\ Stepped(w)
            /\ \A v \in Workers \ {w} : ~Stepped(v)
            /\ block'[w].live =>
                  block'[w].nNonce \in {U32Zero, nonce[w], nonce_out[w]}

\* C26, in a state: the header a worker has just hashed carries the nonce that
\* worker wrote
C26_OwnNonce ==
    \A w \in Workers :
        wpc[w] \in {"count", "submit"} => (block[w].live /\ block[w].nNonce = nonce[w])

\* C26: no block header is shared between workers: each worker writes nonces only
\* into the template it created in its current loop iteration, and no hash
\* attempt of a worker sees a nonce another worker wrote.
C26_OwnTemplate == []C26_OwnNonce /\ [][C26_Step]_vars

\* both workers have hashed, each its own header with its own nonce
C26_Witness ==
    /\ \A w \in Workers : wpc[w] = "count"
    /\ block[1].nNonce # block[2].nNonce

\* the start fetch_add returned to the MineBlock call worker w is in
RECURSIVE LastStartFrom(_, _)
LastStartFrom(w, i) ==
    IF claimed[i].worker = w THEN claimed[i].start ELSE LastStartFrom(w, i - 1)

LastStart(w) == LastStartFrom(w, Len(claimed))

\* C27: a MineBlock call hashes the consecutive nonces s, s+1, ..., s+999 of the
\* range whose start s its fetch_add returned, and no nonce outside that range,
\* however far other workers advance the shared counter (a range has RangeSize
\* nonces here).
C27_ExactBatch ==
    \A w \in Workers :
        wpc[w] = "hash" =>
            /\ ~U32Less(nonce[w], LastStart(w))
            /\ U32Less(nonce[w], U32Add(LastStart(w), RangeSize))

\* C28, one step: the stop flag is set by the statement stop_mining_ = true of
\* StopMining alone, no step of a worker changes it, and a worker leaves its
\* loop from the loop test, having read the flag as true
C28_Step ==
    /\ (stop_mining_' /\ ~stop_mining_) => (cpc = "stop_flag" /\ cpc' = "stop_mining")
    /\ \A w \in Workers :
          /\ (Running(w) /\ Stepped(w)) => stop_mining_' = stop_mining_
          /\ (Running(w) /\ ~Running(w)') => (wpc[w] = "while" /\ stop_mining_)

\* C28: the stop flag becomes true only through an external stop request
\* (StopMining); workers only read it, and a worker leaves MiningLoop only after
\* reading it as true.
C28_StopIsExternal == [][C28_Step]_vars

\* one worker has left its loop on the flag while the other is still in MineBlock
C28_Witness ==
    /\ stop_mining_
    /\ wpc[1] = "done"
    /\ wpc[2] = "cond_stop"
    /\ blocks_found = 1

\* no worker thread is running
Quiescent == \A w \in Workers : ~Running(w)

\* C29: once all workers are quiescent, hashes_computed equals the number of
\* block hashes all workers have evaluated since construction, the attempts that
\* satisfied the target included.
C29_CountsEveryHash == (Quiescent /\ cpc = "idle") => hashes_computed = evaluated

\* main() with signals delivered
SignalSpecInit == SignalInit /\ SoloIdle /\ MTInit /\ CodecIdle /\ KernelIdle /\ ConcIdle /\ NftInit /\ DefiInit

\* the main thread keeps running, in its own code and in SignalHandler, and so does
\* every worker thread; no signal has to be delivered
SignalFairSpec ==
    /\ SignalSpecInit
    /\ [][SignalNext]_vars
    /\ WF_vars(MainStep \/ HandlerStep)
    /\ \A w \in Workers : WF_vars(QuietStep(w))

\* ---- C21

\* the first signal was delivered after StartMining had returned true to main()
SignalAfterStart == delivered # << >> /\ delivered[1].started

\* main() has returned
Returned == mpc \in {"exit", "exited", "terminate"}

\* main() has returned 0, the miner is stopped, every worker thread was joined
StoppedCleanly ==
    /\ Returned
    /\ mexit = 0
    /\ ~is_mining
    /\ \A w \in Workers : wpc[w] \in {"none", "joined"}
    /\ mining_threads_ = << >>

\* a step of StopMining's join loop joins a thread that was not joined before
C21_JoinStep ==
    (cpc = "join" /\ carg'.i = carg.i + 1) => wpc[mining_threads_[carg.i]] = "done"

\* once main() has returned, the shutdown is complete and the process ends
\* without std::terminate()
C21_Shutdown == (SignalAfterStart /\ Returned) => (StoppedCleanly /\ mpc # "terminate")

Padded64(s) == Rep("0", 64 - Len(s)) \o s

\* C31: for a lowercase hex string s of even length <= 64, GetHex(SetHex(s)) is s
\* left-padded with '0' to 64 characters, and the 32 bytes Serialize writes for
\* the field are the byte pairs of that string in reverse order.
C31_HexRoundTrip ==
    (call.op = "SetHex" /\ result.done /\ Len(call.hex) <= 64 /\ Len(call.hex) % 2 = 0) =>
        /\ result.hex = Padded64(call.hex)
        /\ Len(result.bytes) = 32
        /\ IsReversedDisplay(result.bytes, 0, Padded64(call.hex))

\* a string of five bytes, which ends past the first word: its last byte e9 is
\* the first byte written, its first byte ab the fifth
C31_Witness ==
    /\ call.op = "SetHex" /\ result.done
    /\ call.hex = << "a", "b", "0", "0", "1", "2", "c", "d", "e", "9" >>
    /\ result.bytes[1] = 233
    /\ result.bytes[5] = 171
    /\ result.bytes[6] = 0

\* ---- C32

\* a StartMining call returns false
ReturnsFalse == cret # "start_false" /\ cret' = "start_false"

\* the call that returns false is made while the miner is mining and changes
\* nothing but the caller's result; while the miner is mining no call gets past
\* the test of line 30
C32_Step ==
    /\ ReturnsFalse =>
          /\ is_mining
          /\ UNCHANGED << sharedVars, workerVars, historyVars, cpc, carg, starts >>
    /\ (is_mining /\ cpc = "idle") => cpc' \notin {"start_stop", "start_flag", "start_time", "spawn"}

\* C32: StartMining called while IsMining() is true returns false and changes
\* nothing: no thread is spawned, and config_, stop_mining_, start_time and the
\* running workers are as before.
C32_StartWhileMining == [][C32_Step]_vars

\* a second StartMining has returned false while a worker of the first was mining
C32_Witness ==
    /\ cret = "start_false"
    /\ is_mining
    /\ \E w \in Workers : Running(w) /\ wpc[w] # "while"
    /\ starts = 1

\* ---- C33

\* a StopMining call that returns in the step that enters it
IdleStop == cpc = "idle" /\ cret # "stop" /\ cret' = "stop"

\* such a StopMining changes nothing but the caller's result, and no StopMining
\* gets past the test of line 51 while the miner is not mining
C33_Step ==
    /\ IdleStop =>
          /\ ~is_mining
          /\ UNCHANGED << sharedVars, workerVars, historyVars, cpc, carg, starts >>
    /\ (cpc = "idle" /\ ~is_mining) => cpc' \notin {"stop_flag", "stop_mining", "join"}

\* C33: StopMining called when IsMining() is false (never started, or already
\* stopped) changes no state and joins nothing, so that StopMining; StopMining
\* leaves the state of a single StopMining.
C33_StopIdempotent == [][C33_Step]_vars

\* StopMining has returned on a miner that was never started
C33_Witness ==
    /\ cret = "stop"
    /\ starts = 0
    /\ ~is_mining /\ ~stop_mining_
    /\ mining_threads_ = << >>

\* ---- C34

\* StopMining has returned and no StartMining was called since
Stopped == cpc = "idle" /\ cret = "stop"

\* no worker thread exists
C34_NoWorker ==
    Stopped => /\ \A w \in Workers : wpc[w] \in {"none", "joined"}
               /\ mining_threads_ = << >>

\* no hash is evaluated, no block submitted, and the counters stay
C34_Step ==
    Stopped => UNCHANGED << hashes_computed, blocks_found, current_nonce_, evaluated,
                            tested, submitted, accepted, wpc >>

\* C34: after StopMining has returned no worker thread exists or runs: no hash
\* attempt and no SubmitBlock call follows, and hashes_computed, blocks_found and
\* current_nonce_ stay as they are until the next successful StartMining.
C34_QuietAfterStop == []C34_NoWorker /\ [][C34_Step]_vars

\* StopMining has returned on a miner whose two workers had hashed and found a block
C34_Witness ==
    /\ Stopped
    /\ Len(claimed) = MaxClaims
    /\ blocks_found > 0
    /\ \A w \in Workers : wpc[w] = "joined"

\* ---- two threads calling StartMining and StopMining on one miner

\* The other calling thread is scheduled: what the caller's variables hold is now
\* that thread's position, locals and last result.  The statements of StartMining
\* and StopMining take no lock (miner.h lines 139-144 hold no mutex), so the two
\* threads' statements interleave freely.  other.thread names the thread that waits.
Switch ==
    /\ cpc' = other.cpc
    /\ carg' = other.carg
    /\ cret' = other.cret
    /\ other' = [cpc |-> cpc, carg |-> carg, cret |-> cret, thread |-> 3 - other.thread]
    /\ UNCHANGED << sharedVars, starts, workerVars, historyVars >>
    /\ UNCHANGED << soloVars, codecVars, kernelVars, mainVars, nftVars, defiVars >>

\* A miner that is mining: StartMining with one thread has returned true to the
\* first thread and the worker stands at the head of MiningLoop; the second
\* thread has made no call.  starts counts the calls let through from here on.
ConcInit ==
    /\ config_ = [threads |-> 1]
    /\ stop_mining_ = FALSE
    /\ current_nonce_ = U32Zero
    /\ is_mining = TRUE
    /\ now = 0
    /\ start_time = 0
    /\ hashes_computed = 0
    /\ blocks_found = 0
    /\ hash_rate = [num |-> 0, den |-> 1]
    /\ mining_threads_ = << 1 >>
    /\ cpc = "idle"
    /\ carg = [threads |-> 1, i |-> 1]
    /\ cret = "start_true"
    /\ wpc = [w \in Workers |-> IF w = 1 THEN "while" ELSE "none"]
    /\ block = [w \in Workers |-> NoBlock]
    /\ nonce = [w \in Workers |-> U32Zero]
    /\ nonce_out = [w \in Workers |-> U32Zero]
    /\ tested = [w \in Workers |-> {}]
    /\ claimed = << >>
    /\ found = [w \in Workers |-> << >>]
    /\ submitted = [w \in Workers |-> << >>]
    /\ accepted = [w \in Workers |-> 0]
    /\ evaluated = 0
    /\ afterStop = [w \in Workers |-> 0]
    /\ faults = 0
    /\ starts = 0
    /\ other = [cpc |-> "idle", carg |-> [threads |-> 0, i |-> 0], cret |-> "none",
                thread |-> 2]

\* the first thread, which started the miner, calls StopMining whenever the miner
\* is mining
Conc_Stop ==
    /\ other.thread = 2
    /\ StopMining_Check \/ StopMining_Run

\* the second thread calls StartMining
Conc_Start ==
    /\ other.thread = 1
    /\ \/ \E n \in 1..MaxThreads : StartMining_Check(n)
       \/ StartMining_ClearStop \/ StartMining_SetMining \/ StartMining_SetTime
       \/ StartMining_Spawn

ConcNext == Conc_Stop \/ Conc_Start \/ Switch \/ \E w \in Workers : QuietStep(w)

ConcSpecInit == ConcInit /\ SoloIdle /\ CodecIdle /\ KernelIdle /\ MainIdle /\ NftInit /\ DefiInit

\* the miner with two calling threads
ConcSpec == ConcSpecInit /\ [][ConcNext]_vars

\* ---- C35

\* a StopMining call has set the stop flag and has not returned
Stopping(pc) == pc \in {"stop_mining", "join"}

\* C35: for any interleaving of StartMining and StopMining called from different
\* threads, the stop flag set by a StopMining stays true until every worker of
\* that run has exited.
C35_StopFlagHeld ==
    ((Stopping(cpc) \/ Stopping(other.cpc)) /\ \E w \in Workers : Running(w)) => stop_mining_

\* NFTSystem, called from one thread
NftSpecInit == NftInit /\ DefiInit /\ SoloIdle /\ MTInit /\ CodecIdle /\ KernelIdle /\ MainIdle /\ ConcIdle

NftSpec == NftSpecInit /\ [][NftNext]_vars

\* DeFiProtocol, called from one thread
DefiSpecInit == DefiInit /\ NftInit /\ SoloIdle /\ MTInit /\ CodecIdle /\ KernelIdle /\ MainIdle /\ ConcIdle

DefiSpec == DefiSpecInit /\ [][DefiNext]_vars

\* ---- C36

\* FinalizeAuction(u) has returned true
OnFinalized(u) == u \in DOMAIN nft_auctions_ /\ nft_auctions_[u].finalized

\* a PlaceBid or FinalizeAuction call on a finalized auction returns false and
\* changes neither the auctions nor the ownership; the highest bid of an auction
\* never decreases, and a step that changes it is a PlaceBid above it that returned true
C36_Step ==
    /\ \A u \in DOMAIN nft_auctions_ :
          /\ nft_auctions_[u].finalized =>
                /\ nft_auctions_'[u] = nft_auctions_[u]
                /\ (nret'.op \in {"PlaceBid", "FinalizeAuction"} /\ nret'.auction_id = u) =>
                      (~nret'.result /\ nft_ownership_' = nft_ownership_)
          /\ nft_auctions_'[u].current_highest_bid >= nft_auctions_[u].current_highest_bid
          /\ nft_auctions_'[u].current_highest_bid # nft_auctions_[u].current_highest_bid =>
                /\ nret'.op = "PlaceBid" /\ nret'.result /\ nret'.auction_id = u
                /\ nft_auctions_'[u].current_highest_bid > nft_auctions_[u].current_highest_bid
                /\ ~nft_auctions_[u].finalized
    /\ (nret'.op = "PlaceBid" /\ nret'.result) =>
          nft_auctions_'[nret'.auction_id].current_highest_bid >
             nft_auctions_[nret'.auction_id].current_highest_bid

\* C36: once FinalizeAuction(id) has returned true, every later PlaceBid(id, ..)
\* and FinalizeAuction(id) returns false and leaves the auction and the token
\* ownership as they are; before that a bid is accepted only if it is strictly
\* greater than the highest bid, so that current_highest_bid never decreases.
C36_FinalizedIsAbsorbing == [][C36_Step]_vars

\* an auction with one accepted bid was finalized, the token went to the bidder,
\* and a higher bid placed afterwards has returned false
C36_Witness ==
    /\ nret.op = "PlaceBid" /\ ~nret.result /\ nret.auction_id = 1
    /\ OnFinalized(1)
    /\ Len(nft_auctions_[1].bid_history) = 1
    /\ nft_auctions_[1].current_highest_bid < MaxAmount
    /\ \E i \in DOMAIN nft_ownership_[1] :
          nft_ownership_[1][i].owner_address = nft_auctions_[1].highest_bidder


\* ---- C37

\* the listing the last PurchaseNFT call was made on
PurchasedListing == marketplace_listings_[nret.listing_id]

\* C37: whenever PurchaseNFT(listing, buyer, payment) has returned true, the buyer
\* is, immediately afterwards, a recorded owner of the listed (nft_id, token_id),
\* whatever Mint, Transfer, Burn and List calls came before the purchase.
C37_BuyerOwns ==
    (nret.op = "PurchaseNFT" /\ nret.result) =>
        \E i \in DOMAIN nft_ownership_[PurchasedListing.nft_id] :
            /\ nft_ownership_[PurchasedListing.nft_id][i].token_id = PurchasedListing.token_id
            /\ nft_ownership_[PurchasedListing.nft_id][i].owner_address = nret.buyer_address


\* ---- C38

\* the last ExecuteSwap call named a pool that did not exist
UnknownPool == ~dret.before[dret.pool_id].exists

\* the last ExecuteSwap call named an existing pool and a pair of assets that is
\* not the pool's pair, in either direction
MismatchedPair ==
    LET pool == dret.before[dret.pool_id]
    IN  /\ pool.exists
        /\ ~(dret.input_asset = pool.asset_a /\ dret.output_asset = pool.asset_b)
        /\ ~(dret.input_asset = pool.asset_b /\ dret.output_asset = pool.asset_a)

\* C38: ExecuteSwap on an unknown pool, or with a pair of assets that does not
\* match the pool's two assets, returns false and leaves liquidity_pools_ as it
\* was (no pool created, no reserve changed), for every input_amount and every
\* min_output, min_output <= 0 included.
C38_SwapRejected ==
    (dret.op = "ExecuteSwap" /\ (UnknownPool \/ MismatchedPair)) =>
        (~dret.result /\ liquidity_pools_ = dret.before)

====
